---- MODULE Spec2Model ----
(***************************************************************************)
(* QA matrix: defect pairing (edge functions pair-by-code and              *)
(* pair-by-semantic over the dvx_defects table), the client-side AI match  *)
(* fan-out (aiMatchDefects), and the concern dataset (useQAMatrixDB, the   *)
(* spreadsheet imports, the Repeats tab).                                  *)
(*                                                                         *)
(* Conventions.  A nullable value is a sequence of length at most one:     *)
(* Null is <<>>, Some(v) is <<v>>.  A text value is a sequence of          *)
(* one-character strings, so that trim(), toLowerCase() and the string     *)
(* templates of the code are computed and not assumed.  Confidences and    *)
(* match scores are in hundredths (0.3 is 30, 1.0 is 100).                 *)
(***************************************************************************)
EXTENDS Integers, Sequences, FiniteSets, TLC

VARIABLES
  dvx_defects,        \* table dvx_defects: defect id -> row
  qa_matrix_entries,  \* table qa_matrix_entries: s_no -> row
  run,                \* the invocations of the two pairing edge functions
  ai,                 \* one call of aiMatchDefects and its batch promises
  data,               \* useQAMatrixDB: the in-memory QAMatrixEntry[]
  pending,            \* upserts of qa_matrix_entries sent and not yet applied
  matched,            \* the paired defects of the current run (in memory)
  unmatched,          \* the defects of the current run that are not paired
  applied,            \* isApplied and the deltas the last Apply added
  ops,                \* number of user operations so far
  exported,           \* the file written by exportToCSV (its lines), or Null
  preview,            \* the entries read back from an exported file
  defect_data,        \* table defect_data: the rows, in insertion order
  final_defect,       \* table final_defect: the rows, in insertion order
  response            \* the last answer of delete-defects or of an upload

aiVars == <<ai>>
uiVars == <<data, pending, matched, unmatched, applied, ops>>
extVars == <<exported, preview, defect_data, final_defect, response>>
vars == <<dvx_defects, qa_matrix_entries, run, ai,
          data, pending, matched, unmatched, applied, ops, extVars>>

-----------------------------------------------------------------------------
(* Nullable values *)

Null == <<>>
Some(v) == <<v>>
IsNull(x) == x = <<>>
Val(x) == x[1]

Min(a, b) == IF a < b THEN a ELSE b

RECURSIVE SumSeq(_)
SumSeq(s) == IF s = <<>> THEN 0 ELSE Head(s) + SumSeq(Tail(s))

-----------------------------------------------------------------------------
(* Text: String.prototype.trim, toLowerCase and toUpperCase over the       *)
(* characters the model uses: " " is the only white space, "A" the only    *)
(* upper-case letter of a code, "o" and "k" the letters of a status cell.  *)

RECURSIVE TrimStart(_)
TrimStart(s) ==
  IF s # <<>> /\ Head(s) = " " THEN TrimStart(Tail(s)) ELSE s

RECURSIVE TrimEnd(_)
TrimEnd(s) ==
  IF s # <<>> /\ s[Len(s)] = " " THEN TrimEnd(SubSeq(s, 1, Len(s) - 1)) ELSE s

Trim(s) == TrimEnd(TrimStart(s))

ToLowerCase(s) == [i \in 1..Len(s) |-> IF s[i] = "A" THEN "a" ELSE s[i]]

ToUpperCase(s) ==
  [i \in 1..Len(s) |-> CASE s[i] = "a" -> "A" [] s[i] = "o" -> "O"
                          [] s[i] = "k" -> "K" [] OTHER -> s[i]]

\* A JavaScript string is truthy when it is not empty.
Truthy(s) == s # <<>>

-----------------------------------------------------------------------------
(* The dvx_defects table and the two pairing edge functions *)

\* BATCH_SIZE of pair-by-semantic (100 in the source), scaled down: a batch
\* of the model holds BATCH_SIZE defects and the table NumDefects of them.
BATCH_SIZE == 1
NumDefects == 2
NumRuns == 2
\* Matches read from one oracle response.
MaxMatches == 2

DefectIds == 1..NumDefects
Runs == 1..NumRuns

\* m.confidence >= 0.5 of pair-by-semantic, in hundredths.
SEMANTIC_THRESHOLD == 50
\* Confidence values the oracle returns, in hundredths.
Confidences == {25, 30, 50}
\* s_no values the oracle returns besides null.
OracleSNos == {1, 2}

\* A row of dvx_defects as the migration creates it: not_paired, the three
\* pairing columns NULL.
DvxRow(code, loc) ==
  [defect_code |-> code, location_code |-> loc,
   pairing_status |-> "not_paired", pairing_method |-> Null,
   match_score |-> Null, qa_matrix_sno |-> Null]

\* An update that writes the status, the method and the score but not the
\* concern.
UpdatePairing_WithoutSNo(table, id, method, score, sno) ==
  IF id \in DOMAIN table
  THEN [table EXCEPT ![id].pairing_status = "paired",
                     ![id].pairing_method = Some(method),
                     ![id].match_score = Some(score)]
  ELSE table

\* .from("dvx_defects").update({...}).eq("id", id): the four pairing columns
\* are written whatever the row holds.
UpdatePairing(table, id, method, score, sno) ==
  IF id \in DOMAIN table
  THEN [table EXCEPT ![id].pairing_status = "paired",
                     ![id].pairing_method = Some(method),
                     ![id].match_score = Some(score),
                     ![id].qa_matrix_sno = Some(sno)]
  ELSE table

\* .select("*").eq("pairing_status", "not_paired"): the ids of the rows read,
\* in id order.
RECURSIVE SeqOfSet(_)
SeqOfSet(S) ==
  IF S = {} THEN <<>>
  ELSE LET x == CHOOSE y \in S : \A z \in S : y <= z
       IN <<x>> \o SeqOfSet(S \ {x})

NotPairedIds(table) ==
  SeqOfSet({d \in DOMAIN table : table[d].pairing_status = "not_paired"})

\* The key template `${code.trim().toLowerCase()}||${loc.trim().toLowerCase()}`.
PairKey(code, loc) ==
  ToLowerCase(Trim(code)) \o <<"|", "|">> \o ToLowerCase(Trim(loc))

\* qaMap after the loop over qaEntries (a sequence of s_no, in the order the
\* select returned them): a later entry with the same key replaces an earlier
\* one.  The result is Null or Some(s_no).
RECURSIVE QaMapGet(_, _, _)
QaMapGet(rows, order, key) ==
  IF order = <<>> THEN Null
  ELSE LET s == order[Len(order)]
           qa == rows[s]
       IN IF Truthy(qa.defect_code) /\ Truthy(qa.defect_location_code)
             /\ PairKey(qa.defect_code, qa.defect_location_code) = key
          THEN Some(s)
          ELSE QaMapGet(rows, SubSeq(order, 1, Len(order) - 1), key)

\* The loop over dvxDefects of pair-by-code: the updates to apply.
RECURSIVE CodeUpdates(_, _, _, _)
CodeUpdates(table, ids, rows, order) ==
  IF ids = <<>> THEN <<>>
  ELSE LET dvx == table[Head(ids)]
           match == QaMapGet(rows, order,
                             PairKey(dvx.defect_code, dvx.location_code))
           rest == CodeUpdates(table, Tail(ids), rows, order)
       IN IF IsNull(match) THEN rest
          ELSE <<[id |-> Head(ids), qa_matrix_sno |-> Val(match)]>> \o rest

\* The orders in which a select without ORDER BY may return the rows.
Orders(S) ==
  {o \in [1..Cardinality(S) -> S] : \A i, j \in 1..Cardinality(S) :
                                        i # j => o[i] # o[j]}

IdleRun ==
  [kind |-> "none", pc |-> "idle", dvxDefects |-> <<>>, updates |-> <<>>,
   k |-> 0, i |-> 0, nMatches |-> 0, responded |-> {}, m |-> Null,
   pairedCount |-> 0, unpairedCount |-> 0, result |-> "none"]

\* aiMatchDefects has not been called.
AiNotCalled ==
  [pc |-> "idle", n |-> 0, hasConcerns |-> FALSE, batchResults |-> <<>>,
   allMatches |-> <<>>]

\* The page that holds the concern dataset is not mounted.
NotApplied == [isApplied |-> FALSE, delta |-> <<>>]

UiNotMounted ==
  /\ data = <<>>
  /\ pending = {}
  /\ matched = <<>>
  /\ unmatched = <<>>
  /\ applied = NotApplied
  /\ ops = 0

\* Nothing has been exported, uploaded or deleted; the two defect tables are
\* empty.
ExtIdle ==
  /\ exported = Null
  /\ preview = Null
  /\ defect_data = <<>>
  /\ final_defect = <<>>
  /\ response = [message |-> "none", results |-> <<>>]

Done(rec, res) == [rec EXCEPT !.pc = "done", !.result = res, !.m = Null]

\* serve() of either function up to its first await: the select of the
\* not_paired rows is issued.
Invoke(r, kind) ==
  /\ run[r].pc = "idle"
  /\ run' = [run EXCEPT ![r] = [IdleRun EXCEPT !.kind = kind, !.pc = "fetch_dvx"]]
  /\ UNCHANGED <<dvx_defects, qa_matrix_entries, aiVars, uiVars, extVars>>

\* The select of the not_paired rows returns (both functions).
FetchDvx(r) ==
  /\ run[r].pc = "fetch_dvx"
  /\ LET ids == NotPairedIds(dvx_defects)
     IN run' = [run EXCEPT ![r] =
                  IF ids = <<>> THEN Done(@, "no_defects")
                  ELSE [@ EXCEPT !.dvxDefects = ids, !.pc = "fetch_qa"]]
  /\ UNCHANGED <<dvx_defects, qa_matrix_entries, aiVars, uiVars, extVars>>

\* pair-by-code: the select of qa_matrix_entries returns; qaMap, updates and
\* the two counts are computed.
CodeFetchQa(r) ==
  /\ run[r].pc = "fetch_qa" /\ run[r].kind = "code"
  /\ IF DOMAIN qa_matrix_entries = {}
     THEN run' = [run EXCEPT ![r] =
                    Done([@ EXCEPT !.unpairedCount = Len(run[r].dvxDefects)], "no_qa")]
     ELSE \E order \in Orders(DOMAIN qa_matrix_entries) :
            LET ups == CodeUpdates(dvx_defects, run[r].dvxDefects,
                                   qa_matrix_entries, order)
                counted == [run[r] EXCEPT
                              !.updates = ups, !.k = 1,
                              !.pairedCount = Len(ups),
                              !.unpairedCount = Len(run[r].dvxDefects) - Len(ups)]
            IN run' = [run EXCEPT ![r] =
                         IF ups = <<>> THEN Done(counted, "counts")
                         ELSE [counted EXCEPT !.pc = "update"]]
  /\ UNCHANGED <<dvx_defects, qa_matrix_entries, aiVars, uiVars, extVars>>

\* pair-by-code: one awaited update of the batch loop returns; after the last
\* one the response with the two counts is sent.
CodeUpdate(r) ==
  /\ run[r].pc = "update" /\ run[r].kind = "code"
  /\ LET u == run[r].updates[run[r].k]
     IN /\ dvx_defects' = UpdatePairing(dvx_defects, u.id, "code", 100,
                                        u.qa_matrix_sno)
        /\ run' = [run EXCEPT ![r] =
                     IF @.k = Len(@.updates) THEN Done(@, "counts")
                     ELSE [@ EXCEPT !.k = @ + 1]]
  /\ UNCHANGED <<qa_matrix_entries, aiVars, uiVars, extVars>>

\* pair-by-semantic: the select of qa_matrix_entries returns; the first batch
\* is sent to the oracle.
SemFetchQa(r) ==
  /\ run[r].pc = "fetch_qa" /\ run[r].kind = "semantic"
  /\ run' = [run EXCEPT ![r] =
               IF DOMAIN qa_matrix_entries = {}
               THEN Done([@ EXCEPT !.unpairedCount = Len(run[r].dvxDefects)], "no_qa")
               ELSE [@ EXCEPT !.i = 0, !.pc = "oracle"]]
  /\ UNCHANGED <<dvx_defects, qa_matrix_entries, aiVars, uiVars, extVars>>

\* batch = dvxDefects.slice(i, i + BATCH_SIZE)
Batch(rec) ==
  SubSeq(rec.dvxDefects, rec.i + 1, Min(rec.i + BATCH_SIZE, Len(rec.dvxDefects)))

\* The for loop over the batches advances: the next batch is sent, or the
\* response with the two counts.
NextBatch(rec) ==
  IF rec.i + BATCH_SIZE < Len(rec.dvxDefects)
  THEN [rec EXCEPT !.i = @ + BATCH_SIZE, !.pc = "oracle", !.nMatches = 0,
                   !.responded = {}, !.m = Null]
  ELSE Done(rec, "counts")

\* What the await of the oracle's fetch, and the parse of its body, can give.
OracleOutcomes ==
  {"matches", "http429", "http402", "http_error", "no_tool_call", "throws"}

\* pair-by-semantic: the oracle's answer for the current batch arrives.
\*   matches       a tool call whose arguments parse
\*   http429/402   response.status 429 / 402: the function returns that status
\*   http_error    any other status: the batch is counted unmatched
\*   no_tool_call  no tool call in the body: the batch is counted unmatched
\*   throws        fetch rejects or JSON.parse throws: the catch answers 500
SemOracle(r, outcome) ==
  /\ run[r].pc = "oracle"
  /\ run' = [run EXCEPT ![r] =
       CASE outcome = "matches" ->
              [@ EXCEPT !.pc = "matches", !.nMatches = 0, !.responded = {}]
         [] outcome = "http429" -> Done(@, "http429")
         [] outcome = "http402" -> Done(@, "http402")
         [] outcome \in {"http_error", "no_tool_call"} ->
              NextBatch([@ EXCEPT !.unpairedCount = @ + Len(Batch(run[r]))])
         [] OTHER -> Done(@, "http500")]
  /\ UNCHANGED <<dvx_defects, qa_matrix_entries, aiVars, uiVars, extVars>>

\* The matches an oracle response may hold: any index (one past the batch
\* included), null or an s_no, any confidence.
Matches ==
  [defectIndex : 0..BATCH_SIZE, matchedSNo : {Null} \cup {Some(s) : s \in OracleSNos},
   confidence : Confidences]

\* if (m.matchedSNo !== null && m.confidence >= 0.5)
Accepted(m) == ~IsNull(m.matchedSNo) /\ m.confidence >= SEMANTIC_THRESHOLD

\* pair-by-semantic: the loop over matches takes the next match m, up to the
\* await of its update (an accepted match) or through the else branch.
SemMatch(r, m) ==
  /\ run[r].pc = "matches"
  /\ run[r].nMatches < MaxMatches
  /\ LET taken == [run[r] EXCEPT !.nMatches = @ + 1, !.m = Some(m),
                                 !.responded = @ \cup {m.defectIndex}]
     IN run' = [run EXCEPT ![r] =
          IF m.defectIndex + 1 > Len(Batch(run[r])) THEN taken
          ELSE IF Accepted(m) THEN [taken EXCEPT !.pc = "update"]
          ELSE [taken EXCEPT !.unpairedCount = @ + 1]]
  /\ UNCHANGED <<dvx_defects, qa_matrix_entries, aiVars, uiVars, extVars>>

\* pair-by-semantic: the awaited update of an accepted match returns; the loop
\* variable m is dead until the next match is taken.
SemUpdate(r) ==
  /\ run[r].pc = "update" /\ run[r].kind = "semantic"
  /\ LET m == Val(run[r].m)
         id == Batch(run[r])[m.defectIndex + 1]
     IN dvx_defects' = UpdatePairing(dvx_defects, id, "semantic", m.confidence,
                                     Val(m.matchedSNo))
  /\ run' = [run EXCEPT ![r].pairedCount = @ + 1, ![r].pc = "matches",
                         ![r].m = Null]
  /\ UNCHANGED <<qa_matrix_entries, aiVars, uiVars, extVars>>

\* pair-by-semantic: the matches are exhausted; the defects of the batch whose
\* index no match named are counted unmatched, and the loop advances.
SemBatchEnd(r) ==
  /\ run[r].pc = "matches"
  /\ LET missing == {j \in 0..(Len(Batch(run[r])) - 1) : j \notin run[r].responded}
     IN run' = [run EXCEPT ![r] =
                  NextBatch([@ EXCEPT !.unpairedCount = @ + Cardinality(missing)])]
  /\ UNCHANGED <<dvx_defects, qa_matrix_entries, aiVars, uiVars, extVars>>

NextPair ==
  \/ \E r \in Runs, kind \in {"code", "semantic"} : Invoke(r, kind)
  \/ \E r \in Runs : FetchDvx(r)
  \/ \E r \in Runs : CodeFetchQa(r)
  \/ \E r \in Runs : CodeUpdate(r)
  \/ \E r \in Runs : SemFetchQa(r)
  \/ \E r \in Runs, outcome \in OracleOutcomes : SemOracle(r, outcome)
  \/ \E r \in Runs, m \in Matches : SemMatch(r, m)
  \/ \E r \in Runs : SemUpdate(r)
  \/ \E r \in Runs : SemBatchEnd(r)

\* The concerns the pairing functions read: s_no 1 carries a defect code and
\* a location code, s_no 2 carries none.
QaCodeRow(s, code, loc) ==
  [s_no |-> s, defect_code |-> code, defect_location_code |-> loc]

InitPair ==
  /\ dvx_defects = [d \in DefectIds |->
                      IF d = 1 THEN DvxRow(<<"A">>, <<" ", "x">>)
                      ELSE DvxRow(<<>>, <<"x">>)]
  /\ qa_matrix_entries = (1 :> QaCodeRow(1, <<"a">>, <<"x">>)
                          @@ 2 :> QaCodeRow(2, <<>>, <<>>))
  /\ run = [r \in Runs |-> IdleRun]
  /\ ai = AiNotCalled
  /\ UiNotMounted
  /\ ExtIdle

SpecPair == InitPair /\ [][NextPair]_vars

-----------------------------------------------------------------------------
(* Properties of the pairing functions *)

\* C1: a defect that is already paired is never re-paired or overwritten:
\* once pairing_status is "paired" no step changes the row, so its
\* qa_matrix_sno, pairing_method and match_score stay those of the first
\* accepted pairing.
C1_PairedNeverOverwritten ==
  [][\A d \in DOMAIN dvx_defects :
       dvx_defects[d].pairing_status = "paired"
         => dvx_defects'[d] = dvx_defects[d]]_vars

\* The match m a semantic run has just taken names a defect of its batch.
InBatch(rec, m) == m.defectIndex + 1 <= Len(Batch(rec))

\* C2: a semantic candidate with a non-null s_no is accepted exactly when its
\* confidence is at least 0.3 (30 hundredths): a run that took such a
\* candidate and went through the else branch (it is back in the loop over
\* the matches, the candidate still in m) took one of confidence below 0.3.
C2_AcceptedFromThreshold30 ==
  \A r \in Runs :
    (run[r].kind = "semantic" /\ run[r].pc = "matches" /\ ~IsNull(run[r].m))
      => LET m == Val(run[r].m)
         IN (InBatch(run[r], m) /\ ~IsNull(m.matchedSNo)) => m.confidence < 30

\* C3: no semantic candidate overrides an exact-code match: a row paired with
\* method "code" keeps that method and its qa_matrix_sno in every step.
C3_ExactCodeNeverOverridden ==
  [][\A d \in DOMAIN dvx_defects :
       dvx_defects[d].pairing_method = Some("code")
         => /\ dvx_defects'[d].pairing_method = Some("code")
            /\ dvx_defects'[d].qa_matrix_sno = dvx_defects[d].qa_matrix_sno]_vars

\* C5: a failing oracle call does not abort the run: a semantic run that has
\* fetched defects and concerns and has ended has sent its last batch to the
\* oracle and answers with the two counts.
C5_FailedBatchDoesNotAbortRun ==
  \A r \in Runs :
    (run[r].kind = "semantic" /\ run[r].pc = "done"
       /\ run[r].result \notin {"no_defects", "no_qa"})
      => /\ run[r].i + BATCH_SIZE >= Len(run[r].dvxDefects)
         /\ run[r].result = "counts"

-----------------------------------------------------------------------------
(* pair-by-code over the code texts: one defect, one concern, their codes    *)
(* drawn from small sets, and only pair-by-code invoked.                     *)

\* Code texts a dvx_defects row may hold (a TEXT column, written as parsed).
DefectTexts ==
  {<<>>, <<" ">>, <<"a">>, <<"A", " ">>, <<"a", "|">>, <<"|", "a">>}

\* Code texts a concern may hold: loadFromExcel stores str(cell), which is
\* trimmed.
ConcernTexts == {Trim(t) : t \in DefectTexts}

InitCode ==
  /\ \E code \in DefectTexts, loc \in DefectTexts :
       dvx_defects = (1 :> DvxRow(code, loc))
  /\ \E code \in ConcernTexts, loc \in ConcernTexts :
       qa_matrix_entries = (1 :> QaCodeRow(1, code, loc))
  /\ run = [r \in Runs |-> IdleRun]
  /\ ai = AiNotCalled
  /\ UiNotMounted
  /\ ExtIdle

NextCode ==
  \/ \E r \in Runs : Invoke(r, "code")
  \/ \E r \in Runs : FetchDvx(r)
  \/ \E r \in Runs : CodeFetchQa(r)
  \/ \E r \in Runs : CodeUpdate(r)

SpecCode == InitCode /\ [][NextCode]_vars

\* A code text after trimming and case folding.
Fold(t) == ToLowerCase(Trim(t))

\* C4: the deterministic phase pairs a defect with a concern only if the
\* concern has both codes populated and both equal the defect's code and
\* location code after trimming and case folding (so never a defect whose
\* code or location code is empty after trimming), with score 1.0.
C4_CodePairedOnlyOnEqualCodes ==
  \A d \in DOMAIN dvx_defects :
    dvx_defects[d].pairing_method = Some("code")
      => /\ dvx_defects[d].match_score = Some(100)
         /\ \E s \in DOMAIN qa_matrix_entries :
              /\ dvx_defects[d].qa_matrix_sno = Some(s)
              /\ Truthy(qa_matrix_entries[s].defect_code)
              /\ Truthy(qa_matrix_entries[s].defect_location_code)
              /\ Fold(qa_matrix_entries[s].defect_code)
                   = Fold(dvx_defects[d].defect_code)
              /\ Fold(qa_matrix_entries[s].defect_location_code)
                   = Fold(dvx_defects[d].location_code)

-----------------------------------------------------------------------------
(* aiMatchDefects: the client-side fan-out to the match-defects function *)

\* BATCH_SIZE of aiMatchDefects (200 in the source), scaled down.
AI_BATCH_SIZE == 2
\* dvxEntries.length is at most NumDvxEntries.
NumDvxEntries == 3
\* Entries in the matches array of one oracle answer.
MaxAiMatches == 2

\* The values of i in the for loop over dvxEntries.
BatchStarts(n) == {i \in 0..(n - 1) : i % AI_BATCH_SIZE = 0}

\* dvxEntries.slice(i, i + BATCH_SIZE).length
BatchLen(n, i) == Min(AI_BATCH_SIZE, n - i)

\* batch.map((_, idx) => ({defectIndex: batchStart + idx, matchedSNo: null,
\* confidence: 0, reason})): one unmatched entry per defect of the batch.
AllUnmatched(batchStart, len, reason) ==
  [idx \in 1..len |->
     Some([defectIndex |-> batchStart + idx - 1, matchedSNo |-> Null,
           confidence |-> 0, reason |-> reason])]

\* The entries the oracle may put in a matches array: any defect index of
\* the call, null or an s_no.
OracleEntries(n) ==
  {Some([defectIndex |-> j, matchedSNo |-> k, confidence |-> 30, reason |-> "ai"]) :
     j \in 0..(n - 1), k \in {Null, Some(1)}}

\* The matches arrays of up to MaxAiMatches entries.
OracleArrays(n) ==
  UNION {[1..len -> OracleEntries(n)] : len \in 0..MaxAiMatches}

\* What invoke("match-defects") resolves to for a batch of len defects:
\*   error       a non-2xx answer (429, 402, 500) or a transport failure
\*   matches     a 2xx body with a matches array: [null, ...] from the empty
\*               input branch of match-defects, else the parsed tool arguments
\*   data_error  a 2xx body without matches and with an error field
\*   neither     a 2xx body with neither
InvokeResults(n, len, hasConcerns) ==
  IF ~hasConcerns
  THEN {[kind |-> "error", matches |-> <<>>],
        [kind |-> "matches", matches |-> [idx \in 1..len |-> Null]]}
  ELSE {[kind |-> k, matches |-> <<>>] : k \in {"error", "data_error", "neither"}}
       \cup {[kind |-> "matches", matches |-> a] : a \in OracleArrays(n)}

\* The .then callback of one batch promise.
BatchThen(batchStart, len, res) ==
  CASE res.kind = "error" -> AllUnmatched(batchStart, len, "AI matching failed")
    [] res.kind = "matches" -> res.matches
    [] res.kind = "data_error" -> AllUnmatched(batchStart, len, "data.error")
    [] OTHER -> <<>>

\* batchResults.flat(), the batches in the order they were pushed.
RECURSIVE Flat(_, _)
Flat(results, starts) ==
  IF starts = <<>> THEN <<>>
  ELSE Val(results[Head(starts)]) \o Flat(results, Tail(starts))

\* aiMatchDefects is called: every batch request is fired.
AiMatchDefects ==
  /\ ai.pc = "idle"
  /\ ai' = [ai EXCEPT !.pc = "pending",
                      !.batchResults = [i \in BatchStarts(ai.n) |-> Null]]
  /\ UNCHANGED <<dvx_defects, qa_matrix_entries, run, uiVars, extVars>>

\* One batch promise resolves, in any order.
AiBatchResolves(i) ==
  /\ ai.pc = "pending"
  /\ i \in DOMAIN ai.batchResults
  /\ IsNull(ai.batchResults[i])
  /\ \E res \in InvokeResults(ai.n, BatchLen(ai.n, i), ai.hasConcerns) :
       ai' = [ai EXCEPT !.batchResults[i] =
                          Some(BatchThen(i, BatchLen(ai.n, i), res))]
  /\ UNCHANGED <<dvx_defects, qa_matrix_entries, run, uiVars, extVars>>

\* Promise.all resolves: the results are flattened and returned.
AiReturn ==
  /\ ai.pc = "pending"
  /\ \A i \in DOMAIN ai.batchResults : ~IsNull(ai.batchResults[i])
  /\ ai' = [ai EXCEPT !.pc = "done",
                      !.allMatches = Flat(ai.batchResults,
                                          SeqOfSet(DOMAIN ai.batchResults))]
  /\ UNCHANGED <<dvx_defects, qa_matrix_entries, run, uiVars, extVars>>

NextMatch ==
  \/ AiMatchDefects
  \/ \E i \in BatchStarts(NumDvxEntries) : AiBatchResolves(i)
  \/ AiReturn

InitMatch ==
  /\ \E n \in 0..NumDvxEntries, hasConcerns \in BOOLEAN :
       ai = [AiNotCalled EXCEPT !.n = n, !.hasConcerns = hasConcerns]
  /\ dvx_defects = <<>>
  /\ qa_matrix_entries = <<>>
  /\ run = [r \in Runs |-> IdleRun]
  /\ UiNotMounted
  /\ ExtIdle

SpecMatch == InitMatch /\ [][NextMatch]_vars

\* C6: every defect submitted to aiMatchDefects appears exactly once in the
\* returned matches, as a match or as unmatched with a reason.
C6_EveryDefectExactlyOnce ==
  ai.pc = "done"
    => \A j \in 0..(ai.n - 1) :
         Cardinality({k \in 1..Len(ai.allMatches) :
                        /\ ~IsNull(ai.allMatches[k])
                        /\ Val(ai.allMatches[k]).defectIndex = j}) = 1

-----------------------------------------------------------------------------
(* The concern dataset: QAMatrixEntry, its table row, the status rules.      *)
(* An entry keeps one checkpoint of each score group: trim.T10,              *)
(* chassis.RSub, final.F10, qControl.freqControl_1_1, qControlDetail.CVT,    *)
(* and final.ResidualTorque.                                                 *)
(* A score is Null (not inspected) or Some(number).                          *)

\* A null score contributes 0 to a rating.
NumOr0(x) == IF IsNull(x) THEN 0 ELSE Val(x)

\* An MFG rating that counts Residual Torque.
MfgRating_WithResidual(e) ==
  NumOr0(e.trim.T10) + NumOr0(e.chassis.RSub) + NumOr0(e.final.F10)
    + NumOr0(e.final.ResidualTorque)

\* MFG rating: the trim, chassis and final scores without Residual Torque.
MfgRating(e) ==
  NumOr0(e.trim.T10) + NumOr0(e.chassis.RSub) + NumOr0(e.final.F10)

\* Quality rating: the quality control scores.
QualityRating(e) == NumOr0(e.qControl.freqControl_1_1)

\* Plant rating: Residual Torque, the quality control scores and the quality
\* control detail scores.
PlantRating(e) ==
  NumOr0(e.final.ResidualTorque) + NumOr0(e.qControl.freqControl_1_1)
    + NumOr0(e.qControlDetail.CVT)

StatusOf(ok) == IF ok THEN "OK" ELSE "NG"

\* recalculateStatuses of @/utils/qaCalculations: the three ratings and the
\* three statuses are recomputed from the scores, the defect rating and the
\* recurrence.
recalculateStatuses(e) ==
  [e EXCEPT
     !.controlRating = [MFG |-> Some(MfgRating(e)),
                        Quality |-> Some(QualityRating(e)),
                        Plant |-> Some(PlantRating(e))],
     !.workstationStatus =
        StatusOf(e.recurrence = 0 /\ MfgRating(e) >= e.defectRating),
     !.mfgStatus = StatusOf(MfgRating(e) >= e.defectRating),
     !.plantStatus = StatusOf(PlantRating(e) >= e.defectRating)]

\* x || d for a number x: 0 is falsy.
OrNum(x, d) == IF x = 0 THEN d ELSE x

\* x || d for a string x: "" is falsy.
OrStr(x, d) == IF x = "" THEN d ELSE x

\* x ?? null for a score read from a JSON column.
OrNull(x) == x

\* dbRowToEntry: the entry built from a row of qa_matrix_entries.  The
\* weekly_recurrence column is NOT NULL and an array is truthy, so the
\* fallback [0,0,0,0,0,0] is never taken.
dbRowToEntry(row) ==
  [sNo |-> row.s_no,
   defectRating |-> OrNum(row.defect_rating, 1),
   recurrence |-> OrNum(row.recurrence, 0),
   weeklyRecurrence |-> row.weekly_recurrence,
   recurrenceCountPlusDefect |-> OrNum(row.recurrence_count_plus_defect, 0),
   trim |-> [T10 |-> OrNull(row.trim.T10)],
   chassis |-> [RSub |-> OrNull(row.chassis.RSub)],
   final |-> [F10 |-> OrNull(row.final.F10),
              ResidualTorque |-> OrNull(row.final.ResidualTorque)],
   qControl |-> [freqControl_1_1 |-> OrNull(row.q_control.freqControl_1_1)],
   qControlDetail |-> [CVT |-> OrNull(row.q_control_detail.CVT)],
   controlRating |-> [MFG |-> OrNull(row.control_rating.MFG),
                      Quality |-> OrNull(row.control_rating.Quality),
                      Plant |-> OrNull(row.control_rating.Plant)],
   workstationStatus |-> OrStr(row.workstation_status, "NG"),
   mfgStatus |-> OrStr(row.mfg_status, "NG"),
   plantStatus |-> OrStr(row.plant_status, "NG"),
   defectCode |-> row.defect_code,
   defectLocationCode |-> row.defect_location_code]

\* entryToDbRow: the row upserted for an entry.
entryToDbRow(entry) ==
  [s_no |-> entry.sNo,
   defect_rating |-> entry.defectRating,
   recurrence |-> entry.recurrence,
   weekly_recurrence |-> entry.weeklyRecurrence,
   recurrence_count_plus_defect |-> entry.recurrenceCountPlusDefect,
   trim |-> entry.trim,
   chassis |-> entry.chassis,
   final |-> entry.final,
   q_control |-> entry.qControl,
   q_control_detail |-> entry.qControlDetail,
   control_rating |-> entry.controlRating,
   workstation_status |-> entry.workstationStatus,
   mfg_status |-> entry.mfgStatus,
   plant_status |-> entry.plantStatus,
   defect_code |-> entry.defectCode,
   defect_location_code |-> entry.defectLocationCode]

\* The positions of data that hold serial number sNo.
IndexOfSNo(d, sNo) == {i \in 1..Len(d) : d[i].sNo = sNo}

\* prev.find(p => p.sNo === sNo): the first entry with that serial number,
\* Null when there is none.
FindBySNo(d, sNo) ==
  IF IndexOfSNo(d, sNo) = {} THEN Null
  ELSE Some(d[CHOOSE i \in IndexOfSNo(d, sNo) :
                 \A j \in IndexOfSNo(d, sNo) : i <= j])

\* An updateData that sends every entry of next, changed or not.
Changed_All(prev, next) == {next[i] : i \in 1..Len(next)}

\* updateData: the entries of next that are new or differ from the entry of
\* prev with the same serial number.
Changed(prev, next) ==
  {next[i] : i \in {j \in 1..Len(next) :
      FindBySNo(prev, next[j].sNo) # Some(next[j])}}

\* .upsert(rows, {onConflict: "s_no"}) applied to the table.
Upsert(table, rows) ==
  [s \in DOMAIN table \cup {r.s_no : r \in rows} |->
     IF \E r \in rows : r.s_no = s
     THEN CHOOSE r \in rows : r.s_no = s
     ELSE table[s]]

\* An upsert whose rows name one s_no twice is rejected as a whole.
UpsertAccepted(rows) ==
  \A r1, r2 \in rows : r1.s_no = r2.s_no => r1 = r2

-----------------------------------------------------------------------------
(* The hook useQAMatrixDB and the handlers of the page over it *)

\* User operations in one behaviour.
MaxOps == 3
\* Upserts in flight at once.
MaxPending == 1

\* fetchData: select * order by s_no, then setData(rows.map(dbRowToEntry)).
FetchData ==
  /\ LET order == SeqOfSet(DOMAIN qa_matrix_entries)
     IN data' = [i \in 1..Len(order) |-> dbRowToEntry(qa_matrix_entries[order[i]])]
  /\ UNCHANGED <<dvx_defects, qa_matrix_entries, run, aiVars, extVars,
                 pending, matched, unmatched, applied, ops>>

\* An upsert sent by updateData reaches the table (in any order); its error,
\* if any, is only logged.
UpsertArrives ==
  /\ \E rows \in pending :
       /\ qa_matrix_entries' = IF UpsertAccepted(rows)
                               THEN Upsert(qa_matrix_entries, rows)
                               ELSE qa_matrix_entries
       /\ pending' = pending \ {rows}
  /\ UNCHANGED <<dvx_defects, run, aiVars, extVars, data, matched, unmatched, applied, ops>>

\* updateData dropping the updater's result: the data stay as they were and
\* nothing is upserted.
UpdateData_KeepsPrev(next) ==
  /\ data' = data
  /\ pending' = pending

\* updateData(updater) with next = updater(prev): the changed entries are
\* upserted (not awaited) and next becomes the data.
UpdateData(next) ==
  /\ data' = next
  /\ pending' = IF Changed(data, next) = {} THEN pending
                ELSE pending \cup {{entryToDbRow(e) : e \in Changed(data, next)}}

\* A user operation may start.
UserOp ==
  /\ ops < MaxOps
  /\ Cardinality(pending) < MaxPending
  /\ ops' = ops + 1

\* The weekly buckets edited, and the values typed.
WeekIndexes == {4, 5}
WeekValues == {0, 2}

\* setBucket: one weekly bucket is set; the recurrence is recomputed and the
\* statuses re-evaluated.
SetBucket(e, weekIndex, value) ==
  LET w == [e.weeklyRecurrence EXCEPT ![weekIndex + 1] = value]
  IN recalculateStatuses([e EXCEPT !.weeklyRecurrence = w, !.recurrence = SumSeq(w)])

\* onWeeklyUpdate(sNo, weekIndex, value)
OnWeeklyUpdate(sNo, weekIndex, value) ==
  /\ UserOp
  /\ IndexOfSNo(data, sNo) # {}
  /\ UpdateData([i \in 1..Len(data) |->
                  IF data[i].sNo = sNo
                  THEN SetBucket(data[i], weekIndex, value) ELSE data[i]])
  /\ UNCHANGED <<dvx_defects, qa_matrix_entries, run, aiVars, extVars, matched, unmatched, applied>>

\* The score cells edited, and the values typed.
ScoreCells == {<<"trim", "T10">>, <<"final", "ResidualTorque">>}
ScoreValues == {Null, Some(0), Some(3)}

\* One score is set and the ratings and statuses re-evaluated.
SetScore(e, section, key, value) ==
  recalculateStatuses([e EXCEPT ![section][key] = value])

\* onScoreUpdate(sNo, section, key, value)
OnScoreUpdate(sNo, cell, value) ==
  /\ UserOp
  /\ IndexOfSNo(data, sNo) # {}
  /\ UpdateData([i \in 1..Len(data) |->
                  IF data[i].sNo = sNo
                  THEN SetScore(data[i], cell[1], cell[2], value) ELSE data[i]])
  /\ UNCHANGED <<dvx_defects, qa_matrix_entries, run, aiVars, extVars, matched, unmatched, applied>>

\* The next serial number taken from the number of entries.
NextSNo_FromLength(d) == Len(d) + 1

\* Math.max(...qaData.map(q => q.sNo)) + 1, or 1 for an empty list.
NextSNo(d) ==
  IF Len(d) > 0
  THEN (CHOOSE m \in {d[i].sNo : i \in 1..Len(d)} :
          \A i \in 1..Len(d) : d[i].sNo <= m) + 1
  ELSE 1

\* newEntry with the recurrence left at 0.
NewEntry_RecurrenceZero(nextSNo, formRating, quantity) ==
  [sNo |-> nextSNo,
   defectRating |-> formRating,
   recurrence |-> 0,
   weeklyRecurrence |-> <<0, 0, 0, 0, 0, quantity>>,
   recurrenceCountPlusDefect |-> 0,
   trim |-> [T10 |-> Null],
   chassis |-> [RSub |-> Null],
   final |-> [F10 |-> Null, ResidualTorque |-> Null],
   qControl |-> [freqControl_1_1 |-> Null],
   qControlDetail |-> [CVT |-> Null],
   controlRating |-> [MFG |-> Some(0), Quality |-> Some(0), Plant |-> Some(0)],
   workstationStatus |-> "NG",
   mfgStatus |-> "NG",
   plantStatus |-> "NG",
   defectCode |-> <<>>,
   defectLocationCode |-> <<>>]

\* newEntry of handleAddSubmit: the unmatched defect's quantity is the
\* recurrence and the W-1 bucket, every score is null.
NewEntry(nextSNo, formRating, quantity) ==
  [sNo |-> nextSNo,
   defectRating |-> formRating,
   recurrence |-> quantity,
   weeklyRecurrence |-> <<0, 0, 0, 0, 0, quantity>>,
   recurrenceCountPlusDefect |-> 0,
   trim |-> [T10 |-> Null],
   chassis |-> [RSub |-> Null],
   final |-> [F10 |-> Null, ResidualTorque |-> Null],
   qControl |-> [freqControl_1_1 |-> Null],
   qControlDetail |-> [CVT |-> Null],
   controlRating |-> [MFG |-> Some(0), Quality |-> Some(0), Plant |-> Some(0)],
   workstationStatus |-> "NG",
   mfgStatus |-> "NG",
   plantStatus |-> "NG",
   defectCode |-> <<>>,
   defectLocationCode |-> <<>>]

\* The ratings of the add form (gravity A is 5, B is 3, else 1) and the
\* quantities of the unmatched defects.
FormRatings == {1, 5}
AddQuantities == {1, 4}

\* onAddToQAMatrix(entry): the entry is appended to the data.
OnAddToQAMatrix(entry) == UpdateData(Append(data, entry))

\* handleAddSubmit: a concern is created from the selected unmatched defect.
HandleAddSubmit(formRating, quantity) ==
  /\ UserOp
  /\ OnAddToQAMatrix(recalculateStatuses(
       NewEntry(NextSNo(data), formRating, quantity)))
  /\ UNCHANGED <<dvx_defects, qa_matrix_entries, run, aiVars, extVars, matched, unmatched, applied>>

-----------------------------------------------------------------------------
(* The two spreadsheet imports.  A numeric cell is Null (empty) or           *)
(* Some(number); a text cell is a text.                                      *)

\* Number(cell) || 0: an empty cell gives NaN, and NaN and 0 give 0.
CellOr0(c) == IF IsNull(c) THEN 0 ELSE OrNum(Val(c), 0)

\* numOrNull(cell) of xlsxImport, getNum(row, col) of parseSheet.
numOrNull(c) == IF IsNull(c) THEN Null ELSE Some(Val(c))

\* str(cell)
str(c) == Trim(c)

\* cell ?? d
Coalesce(c, d) == IF IsNull(c) THEN d ELSE Val(c)

\* raw === "OK" ? "OK" : "NG" with raw = str(cell).toUpperCase()
StatusFromCell(c) == IF ToUpperCase(str(c)) = <<"O", "K">> THEN "OK" ELSE "NG"

\* loadFromExcel, the entry of one row r.  The cells are named by their
\* column index; r.weekly holds the cells 9 to 14.  Cell 7 holds a number.
ExcelEntry(r) ==
  LET weeklyRecurrence == [i \in 1..6 |-> CellOr0(r.weekly[i])]
      defectRating == Val(r.c7)
  IN [sNo |-> Val(r.c0),
      defectRating |-> defectRating,
      recurrence |-> SumSeq(weeklyRecurrence),
      weeklyRecurrence |-> weeklyRecurrence,
      recurrenceCountPlusDefect |-> defectRating + SumSeq(weeklyRecurrence),
      trim |-> [T10 |-> numOrNull(r.c16)],
      chassis |-> [RSub |-> numOrNull(r.c38)],
      final |-> [F10 |-> numOrNull(r.c42), ResidualTorque |-> numOrNull(r.c53)],
      qControl |-> [freqControl_1_1 |-> numOrNull(r.c54)],
      qControlDetail |-> [CVT |-> numOrNull(r.c65)],
      controlRating |-> [MFG |-> numOrNull(r.c69), Quality |-> numOrNull(r.c70),
                         Plant |-> numOrNull(r.c71)],
      workstationStatus |-> StatusFromCell(r.c72),
      mfgStatus |-> StatusFromCell(r.c73),
      plantStatus |-> StatusFromCell(r.c74),
      defectCode |-> str(r.c5),
      defectLocationCode |-> str(r.c6)]

\* loadFromExcel: the loop over the rows; a row shorter than 10 cells or
\* without a serial number is skipped.
RECURSIVE loadFromExcel(_)
loadFromExcel(rows) ==
  IF rows = <<>> THEN <<>>
  ELSE LET r == Head(rows)
       IN IF r.len < 10 \/ IsNull(r.c0) \/ Val(r.c0) = 0
          THEN loadFromExcel(Tail(rows))
          ELSE <<recalculateStatuses(ExcelEntry(r))>> \o loadFromExcel(Tail(rows))

\* parseSheet, the entry of one row: a defect rating other than 1, 3, 5
\* becomes 1; sNo is the S.No cell or startSNo + entries.length.
SheetEntry(row, fallbackSNo) ==
  LET drRaw == numOrNull(row.dr)
      defectRating == IF drRaw \in {Some(1), Some(3), Some(5)} THEN Val(drRaw) ELSE 1
      weeklyRecurrence == [i \in 1..6 |-> Coalesce(numOrNull(row.weekly[i]), 0)]
      recurrence == SumSeq(weeklyRecurrence)
  IN [sNo |-> Coalesce(numOrNull(row.sNo), fallbackSNo),
      defectRating |-> defectRating,
      recurrence |-> recurrence,
      weeklyRecurrence |-> weeklyRecurrence,
      recurrenceCountPlusDefect |->
        Coalesce(numOrNull(row.rcdr), defectRating + recurrence),
      trim |-> [T10 |-> numOrNull(row.T10)],
      chassis |-> [RSub |-> numOrNull(row.RSub)],
      final |-> [F10 |-> numOrNull(row.F10),
                 ResidualTorque |-> numOrNull(row.ResidualTorque)],
      qControl |-> [freqControl_1_1 |-> numOrNull(row.freqControl_1_1)],
      qControlDetail |-> [CVT |-> numOrNull(row.CVT)],
      controlRating |-> [MFG |-> Some(Coalesce(numOrNull(row.ctrlMfg), 0)),
                         Quality |-> Some(Coalesce(numOrNull(row.ctrlQty), 0)),
                         Plant |-> Some(Coalesce(numOrNull(row.ctrlPlant), 0))],
      workstationStatus |-> StatusFromCell(row.wsStatus),
      mfgStatus |-> StatusFromCell(row.mfgStatus),
      plantStatus |-> StatusFromCell(row.plantStatus),
      defectCode |-> <<>>,
      defectLocationCode |-> <<>>]

\* parseSheet: the loop over the rows after the header; a row without a
\* concern text is skipped.  entries is the list built so far.
RECURSIVE parseSheet(_, _, _)
parseSheet(rows, startSNo, entries) ==
  IF rows = <<>> THEN entries
  ELSE LET row == Head(rows)
       IN IF ~Truthy(Trim(row.concern))
          THEN parseSheet(Tail(rows), startSNo, entries)
          ELSE parseSheet(Tail(rows), startSNo,
                 Append(entries,
                        recalculateStatuses(SheetEntry(row, startSNo + Len(entries)))))

\* The cells of a row of the fixed-column workbook that the model varies.
ExcelRow(sNo, rating, t10, w1) ==
  [len |-> 78, c0 |-> sNo, c5 |-> <<"a", " ">>, c6 |-> <<"x">>, c7 |-> Some(rating),
   weekly |-> <<Null, Null, Null, Null, Some(0), w1>>,
   c16 |-> t10, c38 |-> Null, c42 |-> Null, c53 |-> Null, c54 |-> Null,
   c65 |-> Null,
   c69 |-> Null, c70 |-> Null, c71 |-> Null,
   c72 |-> <<"o", "k">>, c73 |-> <<"o", "k">>, c74 |-> <<>>]

\* The workbooks loaded: one row with a serial number (s_no 1 or 3; of
\* rating 3 with a T10 score and a W-1 count, which is negative for s_no 3,
\* or of rating 0 with neither), and a row without serial number.
ExcelFiles ==
  {<<ExcelRow(Some(f[1]), f[2], f[3], f[4]), ExcelRow(Null, 3, Null, Null)>> :
     f \in {<<1, 3, Some(3), Some(2)>>, <<1, 0, Null, Null>>,
            <<3, 3, Some(3), Some(0 - 2)>>, <<3, 0, Null, Null>>}}

\* The cells of a row of an uploaded sheet that the model varies.
SheetRow(concern, sNo, dr, w1) ==
  [concern |-> concern, sNo |-> sNo, dr |-> dr,
   weekly |-> <<Null, Null, Null, Null, Some(0), w1>>, rcdr |-> Null,
   T10 |-> Some(3), RSub |-> Null, F10 |-> Null, ResidualTorque |-> Null,
   freqControl_1_1 |-> Null, CVT |-> Null,
   ctrlMfg |-> Null, ctrlQty |-> Null, ctrlPlant |-> Null,
   wsStatus |-> <<"O", "K">>, mfgStatus |-> <<>>, plantStatus |-> <<"o", "k">>]

\* The sheets uploaded: a row without concern text, then one with.
SheetFiles ==
  {<<SheetRow(<<" ">>, Null, Null, Null), SheetRow(<<"a">>, sNo, dr, w1)>> :
     sNo \in {Null, Some(1)}, dr \in {Some(2), Some(5)}, w1 \in {Some(2)}}

\* onImport(entries): the entries are upserted into the data by serial
\* number, the last one winning.
RECURSIVE MergeBySNo(_, _)
MergeBySNo(prev, entries) ==
  IF entries = <<>> THEN prev
  ELSE LET e == Head(entries)
           merged == IF IndexOfSNo(prev, e.sNo) = {} THEN Append(prev, e)
                     ELSE [i \in 1..Len(prev) |->
                             IF prev[i].sNo = e.sNo THEN e ELSE prev[i]]
       IN MergeBySNo(merged, Tail(entries))

OnImport(entries) == UpdateData(MergeBySNo(data, entries))

\* The fixed-column workbook is loaded and imported.
ImportExcel(rows) ==
  /\ UserOp
  /\ OnImport(loadFromExcel(rows))
  /\ UNCHANGED <<dvx_defects, qa_matrix_entries, run, aiVars, extVars, matched, unmatched, applied>>

\* FileUploadDialog: a sheet is parsed (nextSNo is the next free serial
\* number) and handleImport hands the preview to onImport.
ImportSheet(rows) ==
  /\ UserOp
  /\ OnImport(parseSheet(rows, NextSNo(data), <<>>))
  /\ UNCHANGED <<dvx_defects, qa_matrix_entries, run, aiVars, extVars, matched, unmatched, applied>>

-----------------------------------------------------------------------------
(* Apply, Undo and the window shift *)

\* The serial numbers the defects of a run are paired to.
MatchedSNos == {1, 2}

PairedDefect(qaSNo, quantity) == [qaSNo |-> qaSNo, quantity |-> quantity]

\* The lists of paired defects a run can end with: a defect of quantity 3
\* on concern 1 and one of quantity 4 on either concern, in both orders.
MatchedLists ==
  {<<PairedDefect(1, 3), PairedDefect(s, 4)>> : s \in MatchedSNos}
    \cup {<<PairedDefect(s, 4), PairedDefect(1, 3)>> : s \in MatchedSNos}

\* The sum of quantity over the defects of the list paired to concern sNo.
RECURSIVE QuantityFor(_, _)
QuantityFor(list, sNo) ==
  IF list = <<>> THEN 0
  ELSE (IF Head(list).qaSNo = sNo THEN Head(list).quantity ELSE 0)
         + QuantityFor(Tail(list), sNo)

\* Grouping by paired concern: one summed quantity per concern.
ApplyDelta(list) ==
  [sNo \in {list[i].qaSNo : i \in 1..Len(list)} |-> QuantityFor(list, sNo)]

\* addToLatest(concern, delta): delta is added to W-1; the recurrence is
\* recomputed and the statuses re-evaluated.
AddToLatest(e, delta) ==
  LET w == [e.weeklyRecurrence EXCEPT ![6] = @ + delta]
  IN recalculateStatuses([e EXCEPT !.weeklyRecurrence = w, !.recurrence = SumSeq(w)])

\* The data after addToLatest of sign * delta[sNo] on every touched concern.
AddDeltas(d, delta, sign) ==
  [i \in 1..Len(d) |->
     IF d[i].sNo \in DOMAIN delta
     THEN AddToLatest(d[i], sign * delta[d[i].sNo]) ELSE d[i]]

\* An Apply button that is never disabled.
ApplyDisabled_Never == FALSE

\* disabled={isApplied} of the Apply button.
ApplyDisabled == applied.isApplied

\* onApplyToMatrix (the button is disabled once applied): the summed
\* quantities are added and the delta set is kept for Undo.
Apply ==
  /\ UserOp
  /\ ~ApplyDisabled
  /\ UpdateData(AddDeltas(data, ApplyDelta(matched), 1))
  /\ applied' = [isApplied |-> TRUE, delta |-> ApplyDelta(matched)]
  /\ UNCHANGED <<dvx_defects, qa_matrix_entries, run, aiVars, extVars, matched, unmatched>>

\* Undo subtracting the quantities of the defects paired now, not the deltas
\* the Apply stored.
Undo_FromMatched ==
  /\ UserOp
  /\ applied.isApplied
  /\ UpdateData(AddDeltas(data, ApplyDelta(matched), -1))
  /\ applied' = NotApplied
  /\ UNCHANGED <<dvx_defects, qa_matrix_entries, run, aiVars, extVars, matched, unmatched>>

\* Undo: the deltas of the last Apply are subtracted.
Undo ==
  /\ UserOp
  /\ applied.isApplied
  /\ UpdateData(AddDeltas(data, applied.delta, -1))
  /\ applied' = NotApplied
  /\ UNCHANGED <<dvx_defects, qa_matrix_entries, run, aiVars, extVars, matched, unmatched>>

\* A window shift that moves W-6 to W-1 instead of dropping it.
Shift_Rotating(e) ==
  LET w == Tail(e.weeklyRecurrence) \o <<Head(e.weeklyRecurrence)>>
  IN recalculateStatuses([e EXCEPT !.weeklyRecurrence = w, !.recurrence = SumSeq(w)])

\* The window shift of one concern: W-6 is dropped and the new W-1 is 0.
Shift(e) ==
  LET w == Tail(e.weeklyRecurrence) \o <<0>>
  IN recalculateStatuses([e EXCEPT !.weeklyRecurrence = w, !.recurrence = SumSeq(w)])

\* The externally triggered window shift, over every concern.
ShiftWindow ==
  /\ UserOp
  /\ data # <<>>
  /\ UpdateData([i \in 1..Len(data) |-> Shift(data[i])])
  /\ UNCHANGED <<dvx_defects, qa_matrix_entries, run, aiVars, extVars, matched, unmatched, applied>>

NextMatrix ==
  \/ FetchData
  \/ UpsertArrives
  \/ \E sNo \in MatchedSNos, weekIndex \in WeekIndexes, value \in WeekValues :
       OnWeeklyUpdate(sNo, weekIndex, value)
  \/ \E sNo \in MatchedSNos, cell \in ScoreCells, value \in ScoreValues :
       OnScoreUpdate(sNo, cell, value)
  \/ \E formRating \in FormRatings, quantity \in AddQuantities :
       HandleAddSubmit(formRating, quantity)
  \/ \E rows \in ExcelFiles : ImportExcel(rows)
  \/ \E rows \in SheetFiles : ImportSheet(rows)
  \/ Apply
  \/ Undo
  \/ ShiftWindow

\* The two concerns stored when the page is opened, as their last save left
\* them: s_no 1 of severity 3 with T10 = 5 and no recurrence, s_no 2 of
\* severity 5 without scores and with one recurrence in W-2.
StoredConcern(sNo, rating, t10, w2) ==
  recalculateStatuses(
    [NewEntry(sNo, rating, 0) EXCEPT
       !.trim.T10 = t10, !.weeklyRecurrence[5] = w2, !.recurrence = w2,
       !.recurrenceCountPlusDefect = rating + w2])

InitMatrix ==
  /\ qa_matrix_entries =
       (1 :> entryToDbRow(StoredConcern(1, 3, Some(5), 0))
        @@ 2 :> entryToDbRow(StoredConcern(2, 5, Null, 1)))
  /\ data = <<>>
  /\ pending = {}
  /\ matched \in MatchedLists
  /\ unmatched = <<>>
  /\ applied = NotApplied
  /\ ops = 0
  /\ dvx_defects = <<>>
  /\ run = [r \in Runs |-> IdleRun]
  /\ ai = AiNotCalled
  /\ ExtIdle

SpecMatrix == InitMatrix /\ [][NextMatrix]_vars

-----------------------------------------------------------------------------
(* Properties of the concern dataset *)

\* The concerns in memory and the concerns as loaded from the stored rows.
Concerns ==
  {data[i] : i \in 1..Len(data)}
    \cup {dbRowToEntry(qa_matrix_entries[s]) : s \in DOMAIN qa_matrix_entries}

\* C7: after every operation that creates or changes a concern's weekly
\* buckets, its recurrence equals the sum of its six weeklyRecurrence values.
C7_RecurrenceIsSumOfWeeks ==
  \A e \in Concerns :
    Len(e.weeklyRecurrence) = 6 /\ e.recurrence = SumSeq(e.weeklyRecurrence)

\* A concern created by handleAddSubmit from a defect of quantity 4 (after
\* the two stored concerns were loaded) is in the data.
C7_Witness ==
  \E i \in 1..Len(data) :
    /\ data[i].sNo = 3
    /\ data[i].weeklyRecurrence = <<0, 0, 0, 0, 0, 4>>
    /\ data[i].recurrence = 4
    /\ IsNull(data[i].trim.T10)

\* C8: for every concern in every reachable state, workstationStatus is OK
\* if and only if the recurrence is 0 and the MFG rating is at least the
\* defect rating.
C8_WorkstationStatusRule ==
  \A e \in Concerns :
    (e.workstationStatus = "OK")
      <=> (e.recurrence = 0 /\ MfgRating(e) >= e.defectRating)

\* C9: in every reachable state, persisted or loaded, mfgStatus is OK exactly
\* when the MFG rating is at least the defect rating and plantStatus is OK
\* exactly when the plant rating is at least the defect rating.
C9_MfgAndPlantStatusRule ==
  \A e \in Concerns :
    /\ (e.mfgStatus = "OK") <=> (MfgRating(e) >= e.defectRating)
    /\ (e.plantStatus = "OK") <=> (PlantRating(e) >= e.defectRating)

\* The sum of quantity over the positions idx of the list, in no order.
RECURSIVE SumQuantity(_, _)
SumQuantity(list, idx) ==
  IF idx = {} THEN 0
  ELSE LET k == CHOOSE j \in idx : TRUE
       IN list[k].quantity + SumQuantity(list, idx \ {k})

\* The quantity of the defects currently paired to concern sNo.
PairedQuantity(sNo) ==
  SumQuantity(matched, {k \in 1..Len(matched) : matched[k].qaSNo = sNo})

-----------------------------------------------------------------------------
(* The review of a reconciliation run: the paired defects are unpaired,      *)
(* reassigned or paired by hand, and the run is applied and undone.  A       *)
(* defect record carries its pairing fields; an unpaired one has none.       *)

\* A defect of the run paired with concern qaSNo.
PairedRecord(id, quantity, qaSNo, method, score) ==
  [id |-> id, quantity |-> quantity, qaSNo |-> qaSNo,
   method |-> Some(method), score |-> score]

\* A defect of the run that is not paired: no concern, no method, no score.
UnpairedRecord(id, quantity) ==
  [id |-> id, quantity |-> quantity, qaSNo |-> Null,
   method |-> Null, score |-> Null]

\* The defects of the run and the concern keys a user may name (concern 3
\* does not exist).
ReviewIds == {1, 2, 3}
ReviewSNos == {1, 2, 3}

\* The positions of a list that hold defect id.
IndexOfId(list, id) == {k \in 1..Len(list) : list[k].id = id}

\* The list without its position k.
RemoveAt(list, k) == SubSeq(list, 1, k - 1) \o SubSeq(list, k + 1, Len(list))

\* unpair that also takes the defect's quantity out of W-1 of its concern.
Unpair_ReducingRecurrence(id) ==
  /\ UserOp
  /\ IF IndexOfId(matched, id) # {}
     THEN LET k == CHOOSE j \in IndexOfId(matched, id) : TRUE
          IN /\ matched' = RemoveAt(matched, k)
             /\ unmatched' = Append(unmatched,
                                    UnpairedRecord(id, matched[k].quantity))
             /\ UpdateData([i \in 1..Len(data) |->
                  IF data[i].sNo = matched[k].qaSNo
                  THEN AddToLatest(data[i], 0 - matched[k].quantity)
                  ELSE data[i]])
     ELSE UNCHANGED <<matched, unmatched, data, pending>>
  /\ UNCHANGED <<dvx_defects, qa_matrix_entries, run, aiVars, extVars, applied>>

\* unpair(defectId): a paired defect loses its pairing fields and becomes
\* unpaired; no concern is touched.  On a defect that is not paired nothing
\* changes.
Unpair(id) ==
  /\ UserOp
  /\ IF IndexOfId(matched, id) # {}
     THEN LET k == CHOOSE j \in IndexOfId(matched, id) : TRUE
          IN /\ matched' = RemoveAt(matched, k)
             /\ unmatched' = Append(unmatched,
                                    UnpairedRecord(id, matched[k].quantity))
     ELSE UNCHANGED <<matched, unmatched>>
  /\ UNCHANGED <<dvx_defects, qa_matrix_entries, run, aiVars, extVars, data, pending, applied>>

\* reassign with the target concern not looked up.
ReassignAccepted_AnyTarget(id, fromSNo, toSNo) ==
  /\ IndexOfId(matched, id) # {}
  /\ \A k \in IndexOfId(matched, id) : matched[k].qaSNo = fromSNo

\* reassign is accepted for a paired defect whose concern is fromSNo when the
\* concern toSNo exists.
ReassignAccepted(id, fromSNo, toSNo) ==
  /\ IndexOfId(matched, id) # {}
  /\ \A k \in IndexOfId(matched, id) : matched[k].qaSNo = fromSNo
  /\ IndexOfSNo(data, toSNo) # {}

\* reassign(defectId, fromConcernKey, toConcernKey): the defect is repointed
\* and its method becomes manual, in one step; a rejected call changes
\* nothing.
Reassign(id, fromSNo, toSNo) ==
  /\ UserOp
  /\ IF ReassignAccepted(id, fromSNo, toSNo)
     THEN matched' = [k \in 1..Len(matched) |->
                        IF matched[k].id = id
                        THEN [matched[k] EXCEPT !.qaSNo = toSNo,
                                                !.method = Some("manual")]
                        ELSE matched[k]]
     ELSE UNCHANGED matched
  /\ UNCHANGED <<dvx_defects, qa_matrix_entries, run, aiVars, extVars, data, pending,
                 unmatched, applied>>

\* manualPair(unmatchedId, qaSNo): an unpaired defect is paired by hand with
\* an existing concern.
ManualPair(id, qaSNo) ==
  /\ UserOp
  /\ IF IndexOfId(unmatched, id) # {} /\ IndexOfSNo(data, qaSNo) # {}
     THEN LET k == CHOOSE j \in IndexOfId(unmatched, id) : TRUE
          IN /\ unmatched' = RemoveAt(unmatched, k)
             /\ matched' = Append(matched,
                  PairedRecord(id, unmatched[k].quantity, qaSNo, "manual", Null))
     ELSE UNCHANGED <<matched, unmatched>>
  /\ UNCHANGED <<dvx_defects, qa_matrix_entries, run, aiVars, extVars, data, pending, applied>>

NextReview ==
  \/ UpsertArrives
  \/ Apply
  \/ Undo
  \/ \E id \in ReviewIds : Unpair(id)
  \/ \E id \in ReviewIds, fromSNo \in ReviewSNos, toSNo \in ReviewSNos :
       Reassign(id, fromSNo, toSNo)
  \/ \E id \in ReviewIds, qaSNo \in ReviewSNos : ManualPair(id, qaSNo)

\* The concerns under review, as loaded from the two stored rows.
ReviewConcerns ==
  <<dbRowToEntry(entryToDbRow(StoredConcern(1, 3, Some(5), 0))),
    dbRowToEntry(entryToDbRow(StoredConcern(2, 5, Null, 1)))>>

\* The run under review: defect 1 (quantity 3) paired with concern 1 by the
\* semantic phase, defect 2 (quantity 4) paired by code with concern 1 or 2,
\* defect 3 (quantity 2) not paired.
ReviewLists ==
  {<<PairedRecord(1, 3, 1, "semantic", Some(50)),
     PairedRecord(2, 4, s, "code", Some(100))>> : s \in MatchedSNos}

\* The page is open, the concerns are loaded and a run has been reconciled.
InitReview ==
  /\ dvx_defects = <<>>
  /\ qa_matrix_entries = [s \in {1, 2} |-> entryToDbRow(ReviewConcerns[s])]
  /\ data = ReviewConcerns
  /\ pending = {}
  /\ matched \in ReviewLists
  /\ unmatched = <<UnpairedRecord(3, 2)>>
  /\ applied = NotApplied
  /\ ops = 0
  /\ run = [r \in Runs |-> IdleRun]
  /\ ai = AiNotCalled
  /\ ExtIdle

SpecReview == InitReview /\ [][NextReview]_vars

-----------------------------------------------------------------------------
(* Properties of the review *)

C12_ApplyOncePerBatch ==
  [][(applied.isApplied /\ applied'.isApplied)
       => /\ Len(data') = Len(data)
          /\ \A i \in 1..Len(data) :
               data'[i].weeklyRecurrence = data[i].weeklyRecurrence]_vars

\* Both defects of concern 1 were applied (3 + 4 in W-1) and two more
\* operations followed with the Apply still outstanding.
C12_Witness ==
  /\ applied.isApplied
  /\ ops = 3
  /\ data[1].weeklyRecurrence = <<0, 0, 0, 0, 0, 7>>
  /\ Len(matched) = 2

\* C13: unpair of a paired defect moves it to the unpaired defects with no
\* concern key, no method and no score, and touches no other defect; unpair
\* of a defect that is not paired changes no defect; in both cases no
\* concern changes, in memory or in storage, applied or not.
C13_UnpairClearsAndKeepsRecurrence ==
  [][\A id \in ReviewIds :
       Unpair(id)
         => /\ data' = data
            /\ qa_matrix_entries' = qa_matrix_entries
            /\ pending' = pending
            /\ IF IndexOfId(matched, id) # {}
               THEN /\ IndexOfId(matched', id) = {}
                    /\ \E k \in IndexOfId(unmatched', id) :
                         /\ IsNull(unmatched'[k].qaSNo)
                         /\ IsNull(unmatched'[k].method)
                         /\ IsNull(unmatched'[k].score)
                    /\ \A d \in ReviewIds \ {id} :
                         /\ {matched'[k] : k \in IndexOfId(matched', d)}
                              = {matched[k] : k \in IndexOfId(matched, d)}
                         /\ {unmatched'[k] : k \in IndexOfId(unmatched', d)}
                              = {unmatched[k] : k \in IndexOfId(unmatched, d)}
               ELSE matched' = matched /\ unmatched' = unmatched]_vars

\* Defect 1 was unpaired after the run was applied: it has no pairing fields
\* and concern 1 keeps the 3 + 4 the Apply added.
C13_Witness ==
  /\ applied.isApplied
  /\ \E k \in IndexOfId(unmatched, 1) : unmatched[k] = UnpairedRecord(1, 3)
  /\ IndexOfId(matched, 1) = {}
  /\ data[1].weeklyRecurrence = <<0, 0, 0, 0, 0, 7>>

\* C14: reassign(defect, from, to) on a paired defect whose concern is from,
\* with an existing concern to, sets the defect's concern to to and its
\* method to manual and nothing else; in every other case (defect not
\* paired, another current concern, no concern to) no defect changes; no
\* concern changes in either case.
C14_ReassignAtomicOrRejected ==
  [][\A id \in ReviewIds, fromSNo \in ReviewSNos, toSNo \in ReviewSNos :
       Reassign(id, fromSNo, toSNo)
         => /\ data' = data
            /\ qa_matrix_entries' = qa_matrix_entries
            /\ pending' = pending
            /\ unmatched' = unmatched
            /\ IF /\ \E k \in 1..Len(matched) :
                       matched[k].id = id /\ matched[k].qaSNo = fromSNo
                  /\ \E i \in 1..Len(data) : data[i].sNo = toSNo
               THEN /\ Len(matched') = Len(matched)
                    /\ \A k \in 1..Len(matched) :
                         IF matched[k].id = id
                         THEN /\ matched'[k].qaSNo = toSNo
                              /\ matched'[k].method = Some("manual")
                              /\ matched'[k].id = id
                              /\ matched'[k].quantity = matched[k].quantity
                         ELSE matched'[k] = matched[k]
               ELSE matched' = matched]_vars

\* Defect 2, paired by code, has been reassigned to concern 2 and is now
\* paired by hand; defect 1 is as the run left it.
C14_Witness ==
  /\ Len(matched) = 2
  /\ matched[1] = PairedRecord(1, 3, 1, "semantic", Some(50))
  /\ matched[2] = PairedRecord(2, 4, 2, "manual", Some(100))

-----------------------------------------------------------------------------
(* Properties of the defect rows *)

-----------------------------------------------------------------------------
(* Properties of the concern dataset, continued *)

-----------------------------------------------------------------------------
(* The ratings as a function of the checkpoint values: a concern of          *)
(* severity 3 is given every assignment of the values below to its six       *)
(* checkpoints and is then re-evaluated.                                     *)

\* The values of a checkpoint: not inspected, scored 0, scored 5.
RatingInputs == {Null, Some(0), Some(5)}

\* The concern with the given checkpoint values, not yet evaluated.
ScoreEntry(t10, rsub, f10, residual, freq, cvt) ==
  [NewEntry(1, 3, 0) EXCEPT
     !.trim.T10 = t10, !.chassis.RSub = rsub, !.final.F10 = f10,
     !.final.ResidualTorque = residual,
     !.qControl.freqControl_1_1 = freq, !.qControlDetail.CVT = cvt]

\* recalculateStatuses is applied to the concern.
Recalculate ==
  /\ ops = 0
  /\ data' = [i \in 1..Len(data) |-> recalculateStatuses(data[i])]
  /\ ops' = 1
  /\ UNCHANGED <<dvx_defects, qa_matrix_entries, run, aiVars, extVars, pending,
                 matched, unmatched, applied>>

NextScores == Recalculate

InitScores ==
  /\ \E t10 \in RatingInputs, rsub \in RatingInputs, f10 \in RatingInputs,
        residual \in RatingInputs, freq \in RatingInputs, cvt \in RatingInputs :
       data = <<ScoreEntry(t10, rsub, f10, residual, freq, cvt)>>
  /\ dvx_defects = <<>>
  /\ qa_matrix_entries = <<>>
  /\ pending = {}
  /\ matched = <<>>
  /\ unmatched = <<>>
  /\ applied = NotApplied
  /\ ops = 0
  /\ run = [r \in Runs |-> IdleRun]
  /\ ai = AiNotCalled
  /\ ExtIdle

SpecScores == InitScores /\ [][NextScores]_vars

\* The sum of the cells of a list that hold a value.
NonNullSum(cells) ==
  LET held == SelectSeq(cells, LAMBDA c : c # Null)
  IN SumSeq([i \in 1..Len(held) |-> held[i][1]])

C18_WeeklyRecurrenceShape ==
  \A e \in Concerns :
    /\ Len(e.weeklyRecurrence) = 6
    /\ \A k \in 1..6 : e.weeklyRecurrence[k] \in Nat

\* C19: the defect rating of every concern, in memory or loaded from
\* storage, is 1, 3 or 5.
C19_SeverityIsOneThreeFive ==
  \A e \in Concerns : e.defectRating \in {1, 3, 5}

-----------------------------------------------------------------------------
(* The recurrence window: two loaded concerns with counts in several         *)
(* buckets are edited, applied, undone and shifted.                          *)

\* The buckets the two concerns start with.
WindowBuckets == {<<2, 0, 0, 0, 1, 0>>, <<0, 1, 0, 0, 0, 3>>}

\* A stored concern with the given buckets.
WindowConcern(sNo, rating, weekly) ==
  recalculateStatuses(
    [NewEntry(sNo, rating, 0) EXCEPT
       !.weeklyRecurrence = weekly, !.recurrence = SumSeq(weekly),
       !.recurrenceCountPlusDefect = rating + SumSeq(weekly)])

NextWindow ==
  \/ UpsertArrives
  \/ \E sNo \in MatchedSNos, weekIndex \in WeekIndexes, value \in WeekValues :
       OnWeeklyUpdate(sNo, weekIndex, value)
  \/ Apply
  \/ Undo
  \/ ShiftWindow

InitWindow ==
  /\ \E w1 \in WindowBuckets, w2 \in WindowBuckets :
       data = <<dbRowToEntry(entryToDbRow(WindowConcern(1, 3, w1))),
                dbRowToEntry(entryToDbRow(WindowConcern(2, 5, w2)))>>
  /\ qa_matrix_entries = [s \in {1, 2} |-> entryToDbRow(data[s])]
  /\ dvx_defects = <<>>
  /\ pending = {}
  /\ matched \in MatchedLists
  /\ unmatched = <<>>
  /\ applied = NotApplied
  /\ ops = 0
  /\ run = [r \in Runs |-> IdleRun]
  /\ ai = AiNotCalled
  /\ ExtIdle

SpecWindow == InitWindow /\ [][NextWindow]_vars

\* C20: the window shift maps the buckets [b1,b2,b3,b4,b5,b6] of every
\* concern to [b2,b3,b4,b5,b6,0] and lowers its recurrence by b1; no other
\* operation moves a value between buckets: Apply and Undo change no bucket
\* but W-1, and setBucket changes no bucket but the one it names.
C20_ShiftOnlyOnTrigger ==
  [][/\ ShiftWindow
          => /\ Len(data') = Len(data)
             /\ \A i \in 1..Len(data) :
                  LET b == data[i].weeklyRecurrence
                  IN /\ data'[i].weeklyRecurrence
                          = <<b[2], b[3], b[4], b[5], b[6], 0>>
                     /\ data'[i].recurrence = data[i].recurrence - b[1]
     /\ (Apply \/ Undo)
          => /\ Len(data') = Len(data)
             /\ \A i \in 1..Len(data) : \A k \in 1..5 :
                  data'[i].weeklyRecurrence[k] = data[i].weeklyRecurrence[k]
     /\ \A sNo \in MatchedSNos, weekIndex \in WeekIndexes, value \in WeekValues :
          OnWeeklyUpdate(sNo, weekIndex, value)
            => /\ Len(data') = Len(data)
               /\ \A i \in 1..Len(data) : \A k \in 1..6 :
                    k # weekIndex + 1
                      => data'[i].weeklyRecurrence[k]
                           = data[i].weeklyRecurrence[k]]_vars

\* One shift of a concern that held 2 in W-6 and 1 in W-2: the 2 is dropped,
\* the 1 is in W-3 and the recurrence went from 3 to 1.
C20_Witness ==
  /\ ops = 1
  /\ ~applied.isApplied
  /\ data[1].weeklyRecurrence = <<0, 0, 0, 1, 0, 0>>
  /\ data[1].recurrence = 1
  /\ \E s \in DOMAIN qa_matrix_entries :
       qa_matrix_entries[s].weekly_recurrence = <<2, 0, 0, 0, 1, 0>>

-----------------------------------------------------------------------------
(* exportToCSV, and the exported file read back by the upload dialog       *)
(* (parseSheet) and by loadFromExcel.  Of the 78 columns of the file the    *)
(* model writes those that hold a field an entry of the model keeps, and    *)
(* the concern text, which is "a" for every entry of the model: the        *)
(* columns 0, 4 to 16, 38, 42, 53, 54, 65 and 69 to 74.  A line of the file *)
(* and a cell are texts.                                                    *)

\* exportToCSV(data): the header line, then one line for each entry.  A
\* number is written by String(n) (join), a null score as the empty text
\* (?? ""), a null rating as the empty text (join), the concern and the two
\* codes between quotes with every quote doubled.
exportToCSV(d) ==
  LET RECURSIVE Join(_)
      \* cells.join(",")
      Join(cells) ==
        IF cells = <<>> THEN <<>>
        ELSE IF Len(cells) = 1 THEN Head(cells)
        ELSE Head(cells) \o <<",">> \o Join(Tail(cells))
      Digits == <<"0", "1", "2", "3", "4", "5", "6", "7", "8", "9">>
      RECURSIVE String(_)
      String(n) ==
        IF n < 0 THEN <<"-">> \o String(0 - n)
        ELSE IF n < 10 THEN <<Digits[n + 1]>>
        ELSE String(n \div 10) \o <<Digits[(n % 10) + 1]>>
      OrEmpty(x) == IF IsNull(x) THEN <<>> ELSE String(Val(x))
      RECURSIVE Doubled(_)
      Doubled(t) ==
        IF t = <<>> THEN <<>>
        ELSE IF Head(t) = "\"" THEN <<"\"", "\"">> \o Doubled(Tail(t))
        ELSE <<Head(t)>> \o Doubled(Tail(t))
      Quoted(t) == <<"\"">> \o Doubled(t) \o <<"\"">>
      Status(s) == IF s = "OK" THEN <<"O", "K">> ELSE <<"N", "G">>
      headers ==
        <<
         <<"S", ".", "N", "o">>,
         <<"C", "o", "n", "c", "e", "r", "n", " ", "D", "i", "s", "c", "e",
           "r", "p", "t", "i", "o", "n", " ", "[", "M", "o", "d", "e", " ",
           "o", "f", " ", "f", "a", "i", "l", "u", "r", "e", "]">>,
         <<"D", "e", "f", "e", "c", "t", " ", "c", "o", "d", "e">>,
         <<"L", "o", "c", "a", "t", "i", "o", "n", " ", "c", "o", "d", "e">>,
         <<"D", "e", "f", "e", "c", "t", " ", "R", "a", "t", "i", "n", "g",
           " ", "(", "1", "/", "3", "/", "5", ")">>,
         <<"R", "e", "c", "c", "u", "r", "e", "n", "c", "e">>,
         <<"L", "a", "s", "t", " ", "6", " ", "W", "e", "e", "k", "s">>,
         <<"L", "a", "s", "t", " ", "5", " ", "W", "e", "e", "k", "s">>,
         <<"L", "a", "s", "t", " ", "4", " ", "W", "e", "e", "k", "s">>,
         <<"L", "a", "s", "t", " ", "3", " ", "W", "e", "e", "k", "s">>,
         <<"L", "a", "s", "t", " ", "2", " ", "W", "e", "e", "k", "s">>,
         <<"L", "a", "s", "t", " ", "W", "e", "e", "k">>,
         <<"R", "e", "c", "c", "u", "r", "e", "n", "c", "e", " ", "C", "o",
           "u", "n", "t", "+", "D", "e", "f", "e", "c", "t", " ", "R", "a",
           "t", "i", "n", "g">>,
         <<"T", "1", "0">>,
         <<"R", "/", "S", "u", "b">>,
         <<"F", "1", "0">>,
         <<"R", "e", "s", "i", "d", "u", "a", "l", " ", "T", "o", "r", "q",
           "u", "e">>,
         <<"1", ".", "1", ":", " ", "F", "r", "e", "q", "u", "e", "n", "c",
           "y", " ", "C", "o", "n", "t", "r", "o", "l">>,
         <<"C", "V", "T">>,
         <<"M", "F", "G">>,
         <<"Q", "u", "a", "l", "i", "t", "y">>,
         <<"P", "l", "a", "n", "t">>,
         <<"W", "o", "k", "s", "t", "a", "t", "i", "o", "n">>,
         <<"M", "F", "G">>,
         <<"P", "l", "a", "n", "t">>
        >>
      Row(e) ==
        <<String(e.sNo), Quoted(<<"a">>), Quoted(e.defectCode),
          Quoted(e.defectLocationCode), String(e.defectRating),
          String(e.recurrence)>>
        \o [i \in 1..Len(e.weeklyRecurrence) |-> String(e.weeklyRecurrence[i])]
        \o <<String(e.recurrenceCountPlusDefect), OrEmpty(e.trim.T10),
             OrEmpty(e.chassis.RSub), OrEmpty(e.final.F10),
             OrEmpty(e.final.ResidualTorque),
             OrEmpty(e.qControl.freqControl_1_1), OrEmpty(e.qControlDetail.CVT),
             OrEmpty(e.controlRating.MFG), OrEmpty(e.controlRating.Quality),
             OrEmpty(e.controlRating.Plant), Status(e.workstationStatus),
             Status(e.mfgStatus), Status(e.plantStatus)>>
  IN <<Join(headers)>> \o [i \in 1..Len(d) |-> Join(Row(d[i]))]

\* XLSX.read of the file and sheet_to_json(sheet, {header: 1}): the cells of
\* each line.  A cell that opens with a quote runs to its closing quote (a
\* quote that is not the first of a pair "") and is read without the two,
\* every pair in it as one quote; any other cell runs to the next comma.
ReadCsv(lines) ==
  LET First(S) == CHOOSE i \in S : \A j \in S : i <= j
      QuotesIn(t, i, j) == Cardinality({k \in i..j : t[k] = "\""})
      RECURSIVE Halved(_)
      Halved(c) ==
        IF c = <<>> THEN <<>>
        ELSE IF Head(c) = "\"" THEN <<"\"">> \o Halved(Tail(Tail(c)))
        ELSE <<Head(c)>> \o Halved(Tail(c))
      \* The position that ends the cell opening at position i of t: its
      \* closing quote, or the comma after it (Len(t) + 1 at the end of t).
      Closing(t, i) ==
        First({j \in (i + 1)..Len(t) :
                 /\ t[j] = "\"" /\ QuotesIn(t, i + 1, j) % 2 = 1
                 /\ (j = Len(t) \/ t[j + 1] # "\"")})
      Comma(t, i) == First({j \in i..Len(t) : t[j] = ","} \cup {Len(t) + 1})
      RECURSIVE Cells(_, _)
      Cells(t, i) ==
        IF i <= Len(t) /\ t[i] = "\""
        THEN <<Halved(SubSeq(t, i + 1, Closing(t, i) - 1))>>
               \o (IF Closing(t, i) >= Len(t) THEN <<>>
                   ELSE Cells(t, Closing(t, i) + 2))
        ELSE <<SubSeq(t, i, Comma(t, i) - 1)>>
               \o (IF Comma(t, i) > Len(t) THEN <<>>
                   ELSE Cells(t, Comma(t, i) + 1))
  IN [r \in 1..Len(lines) |-> Cells(lines[r], 1)]

\* Number(cell) for a cell that is not empty: the number a text of digits
\* writes, Null (NaN) for any other text.
Number(t) ==
  LET Digits == <<"0", "1", "2", "3", "4", "5", "6", "7", "8", "9">>
      u == Trim(t)
      neg == u # <<>> /\ u[1] = "-"
      body == IF neg THEN Tail(u) ELSE u
      DigitOf(c) == CHOOSE n \in 0..9 : Digits[n + 1] = c
      RECURSIVE Value(_)
      Value(s) ==
        IF s = <<>> THEN 0
        ELSE 10 * Value(SubSeq(s, 1, Len(s) - 1)) + DigitOf(s[Len(s)])
  IN IF u = <<>> THEN Some(0)
     ELSE IF body # <<>> /\ \A i \in 1..Len(body) :
                              \E n \in 1..10 : Digits[n] = body[i]
     THEN Some(IF neg THEN 0 - Value(body) ELSE Value(body))
     ELSE Null

\* normalizeHeader(h): trimmed, in lower case, every run of white space and
\* underscores replaced by one space.
normalizeHeader(h) ==
  LET Upper == <<"A", "B", "C", "D", "E", "F", "G", "H", "I", "J", "K", "L",
                 "M", "N", "O", "P", "Q", "R", "S", "T", "U", "V", "W", "X",
                 "Y", "Z">>
      Lower == <<"a", "b", "c", "d", "e", "f", "g", "h", "i", "j", "k", "l",
                 "m", "n", "o", "p", "q", "r", "s", "t", "u", "v", "w", "x",
                 "y", "z">>
      LowerOf(c) == IF \E n \in 1..26 : Upper[n] = c
                    THEN Lower[CHOOSE n \in 1..26 : Upper[n] = c] ELSE c
      RECURSIVE Collapsed(_, _)
      \* t with every run of spaces and underscores as one space; space
      \* tells whether the character before t was one of them.
      Collapsed(t, space) ==
        IF t = <<>> THEN <<>>
        ELSE IF Head(t) \in {" ", "_"}
        THEN (IF space THEN <<>> ELSE <<" ">>) \o Collapsed(Tail(t), TRUE)
        ELSE <<LowerOf(Head(t))>> \o Collapsed(Tail(t), FALSE)
  IN Collapsed(Trim(h), FALSE)

\* find(...names) of parseSheet over the header row (rawHeaders the trimmed
\* headers, headers the normalized ones): for each name in turn, the column
\* whose normalized header is the normalized name (colMap, the last such
\* column), else the first column whose header is the name, else the first
\* whose normalized header contains the normalized name.  The result is the
\* position in the row, 0 where the source gives -1.
RECURSIVE find(_, _, _)
find(rawHeaders, headers, names) ==
  IF names = <<>> THEN 0
  ELSE LET name == Head(names)
           nm == normalizeHeader(name)
           Includes(h) == \E i \in 1..(Len(h) - Len(nm) + 1) :
                            SubSeq(h, i, i + Len(nm) - 1) = nm
           same == {i \in 1..Len(headers) : headers[i] = nm}
           raw == {i \in 1..Len(rawHeaders) : rawHeaders[i] = name}
           part == {i \in 1..Len(headers) : Includes(headers[i])}
       IN IF same # {} THEN CHOOSE i \in same : \A j \in same : j <= i
          ELSE IF raw # {} THEN CHOOSE i \in raw : \A j \in raw : i <= j
          ELSE IF part # {} THEN CHOOSE i \in part : \A j \in part : i <= j
          ELSE find(rawHeaders, headers, Tail(names))

\* parseSheet up to its loop: the columns are looked up in the header row
\* and the cells of each later row read through them (getVal, getNum).
SheetRowsOf(rows) ==
  LET rawHeaders == [i \in 1..Len(rows[1]) |-> Trim(rows[1][i])]
      headers == [i \in 1..Len(rawHeaders) |-> normalizeHeader(rawHeaders[i])]
      Col(names) == find(rawHeaders, headers, names)
      Text(r, p) == IF p = 0 \/ p > Len(r) THEN <<>> ELSE r[p]
      Num(r, p) == IF Text(r, p) = <<>> THEN Null ELSE Number(Text(r, p))
      sNoCol == Col(<<<<"S", ".", "N", "o">>, <<"s", "n", "o">>, <<"s", ".", "n", "o">>>>)
      concernCol == Col(<<<<"C", "o", "n", "c", "e", "r", "n">>, <<"d", "e", "s", "c", "r", "i", "p", "t", "i", "o", "n">>>>)
      drCol == Col(<<<<"D", "e", "f", "e", "c", "t", " ", "R", "a", "t", "i", "n", "g">>, <<"d", "r">>, <<"r", "a", "t", "i", "n", "g">>>>)
      wCols == <<Col(<<<<"W", "-", "6">>>>), Col(<<<<"W", "-", "5">>>>),
                 Col(<<<<"W", "-", "4">>>>), Col(<<<<"W", "-", "3">>>>),
                 Col(<<<<"W", "-", "2">>>>), Col(<<<<"W", "-", "1">>>>)>>
      rcdrCol == Col(<<<<"R", "C", "+", "D", "R">>>>)
      T10Col == Col(<<<<"T", "1", "0">>>>)
      RSubCol == Col(<<<<"R", "S", "u", "b">>>>)
      F10Col == Col(<<<<"F", "1", "0">>>>)
      residualTorqueCol == Col(<<<<"R", "e", "s", "i", "d", "u", "a", "l", " ", "T", "o", "r", "q", "u", "e">>>>)
      freqCol == Col(<<<<"1", ".", "1">>>>)
      cvtCol == Col(<<<<"C", "V", "T">>>>)
      ctrlMfgCol == Col(<<<<"C", "T", "R", "L", " ", "M", "F", "G">>>>)
      ctrlQtyCol == Col(<<<<"C", "T", "R", "L", " ", "Q", "t", "y">>>>)
      ctrlPlantCol == Col(<<<<"C", "T", "R", "L", " ", "P", "l", "a", "n", "t">>>>)
      wsStatusCol == Col(<<<<"W", "S", " ", "S", "t", "a", "t", "u", "s">>>>)
      mfgStatusCol == Col(<<<<"M", "F", "G", " ", "S", "t", "a", "t", "u", "s">>>>)
      plantStatusCol == Col(<<<<"P", "l", "a", "n", "t", " ", "S", "t", "a", "t", "u", "s">>>>)
  IN [k \in 1..(Len(rows) - 1) |->
        LET r == rows[k + 1]
        IN [concern |-> Text(r, concernCol), sNo |-> Num(r, sNoCol),
            dr |-> Num(r, drCol),
            weekly |-> [i \in 1..6 |-> Num(r, wCols[i])],
            rcdr |-> Num(r, rcdrCol),
            T10 |-> Num(r, T10Col), RSub |-> Num(r, RSubCol),
            F10 |-> Num(r, F10Col),
            ResidualTorque |-> Num(r, residualTorqueCol),
            freqControl_1_1 |-> Num(r, freqCol), CVT |-> Num(r, cvtCol),
            ctrlMfg |-> Num(r, ctrlMfgCol), ctrlQty |-> Num(r, ctrlQtyCol),
            ctrlPlant |-> Num(r, ctrlPlantCol),
            wsStatus |-> Text(r, wsStatusCol),
            mfgStatus |-> Text(r, mfgStatusCol),
            plantStatus |-> Text(r, plantStatusCol)]]

\* loadFromExcel up to its loop: r[c] is the cell of column c of the file
\* (ExportColumns names the columns the model writes by their index in the
\* file); r.length is one more than the index of the last cell that is not
\* empty.
ExcelRowsOf(rows) ==
  LET ExportColumns ==
        <<0, 4, 5, 6, 7, 8, 9, 10, 11, 12, 13, 14, 15, 16, 38, 42, 53, 54,
          65, 69, 70, 71, 72, 73, 74>>
      Pos(c) == CHOOSE p \in 1..Len(ExportColumns) : ExportColumns[p] = c
      Text(r, c) == IF Pos(c) > Len(r) THEN <<>> ELSE r[Pos(c)]
      Num(r, c) == IF Text(r, c) = <<>> THEN Null ELSE Number(Text(r, c))
      Filled(r) == {p \in 1..Len(r) : p <= Len(ExportColumns) /\ r[p] # <<>>}
      Length(r) ==
        IF Filled(r) = {} THEN 0
        ELSE ExportColumns[CHOOSE p \in Filled(r) : \A q \in Filled(r) : q <= p] + 1
  IN [k \in 1..Len(rows) |->
        LET r == rows[k]
        IN [len |-> Length(r), c0 |-> Num(r, 0), c5 |-> Text(r, 5),
            c6 |-> Text(r, 6), c7 |-> Num(r, 7),
            weekly |-> [i \in 1..6 |-> Num(r, 8 + i)],
            c16 |-> Num(r, 16), c38 |-> Num(r, 38), c42 |-> Num(r, 42),
            c53 |-> Num(r, 53), c54 |-> Num(r, 54), c65 |-> Num(r, 65),
            c69 |-> Num(r, 69), c70 |-> Num(r, 70), c71 |-> Num(r, 71),
            c72 |-> Text(r, 72), c73 |-> Text(r, 73), c74 |-> Text(r, 74)]]

\* The Export CSV button: the file of the entries in memory is written.
ExportCSV ==
  /\ data # <<>>
  /\ exported' = exportToCSV(data)
  /\ UNCHANGED <<dvx_defects, qa_matrix_entries, run, aiVars, uiVars,
                 preview, defect_data, final_defect, response>>

\* handleFile of the upload dialog on the exported file: the preview is what
\* parseSheet reads (nextSNo is the next free serial number).
HandleFile ==
  /\ exported # Null
  /\ preview' = parseSheet(SheetRowsOf(ReadCsv(exported)), NextSNo(data), <<>>)
  /\ UNCHANGED <<dvx_defects, qa_matrix_entries, run, aiVars, uiVars,
                 exported, defect_data, final_defect, response>>

\* loadFromExcel on the exported file.
LoadExported ==
  /\ exported # Null
  /\ preview' = loadFromExcel(ExcelRowsOf(ReadCsv(exported)))
  /\ UNCHANGED <<dvx_defects, qa_matrix_entries, run, aiVars, uiVars,
                 exported, defect_data, final_defect, response>>

NextExport ==
  \/ ExportCSV
  \/ HandleFile
  \/ LoadExported
  \/ FetchData

\* The concern held when the page is opened, stored as its last save left
\* it: s_no 1 with a severity, a W-1 count, T10 and R/Sub scores and a
\* defect code drawn from small sets.
ExportConcerns ==
  {recalculateStatuses(
     [NewEntry(1, rating, w1) EXCEPT
        !.trim.T10 = t10, !.chassis.RSub = rsub, !.defectCode = code,
        !.recurrenceCountPlusDefect = rating + w1]) :
     rating \in {1, 3, 5}, w1 \in {0, 2}, t10 \in {Null, Some(0), Some(3)},
     rsub \in {Null, Some(0), Some(5)},
     code \in {<<>>, <<"a">>, <<"a", ",", "\"">>}}

InitExport ==
  /\ \E e \in ExportConcerns :
       /\ qa_matrix_entries = (1 :> entryToDbRow(e))
       /\ data = <<e>>
  /\ pending = {}
  /\ matched = <<>>
  /\ unmatched = <<>>
  /\ applied = NotApplied
  /\ ops = 0
  /\ dvx_defects = <<>>
  /\ run = [r \in Runs |-> IdleRun]
  /\ ai = AiNotCalled
  /\ ExtIdle

SpecExport == InitExport /\ [][NextExport]_vars

\* The file in hand is the export of the entries in memory, and this step
\* reads it back through either import.
ReadsBackExport ==
  /\ exported = exportToCSV(data)
  /\ HandleFile \/ LoadExported

\* C21: exporting a concern in the fixed column order and importing the
\* exported row yields a concern equal to the original in every field: the
\* entries read back from the export of the entries in memory are those
\* entries.
C21_ExportImportIdentity ==
  [][ReadsBackExport => preview' = data]_vars

\* The checkpoints of every score group of an entry.
Checkpoints(e) == <<e.trim, e.chassis, e.final, e.qControl, e.qControlDetail>>

\* C22: a concern converted to its stored row and back is the same concern
\* (fetchData over the rows entryToDbRow wrote leaves the entries as they
\* are), and through export then import every checkpoint of every score
\* group keeps its value, a null one null and a 0 one 0.
C22_NullAndZeroKept ==
  [][/\ FetchData =>
          /\ data' = data
          /\ \A i \in 1..Len(data) :
               dbRowToEntry(entryToDbRow(data[i])) = data[i]
     /\ ReadsBackExport =>
          /\ Len(preview') = Len(data)
          /\ \A i \in 1..Len(data) :
               Checkpoints(preview'[i]) = Checkpoints(data[i])]_vars

-----------------------------------------------------------------------------
(* Auto-save *)

\* The concerns of the step's new dataset that the old dataset does not hold
\* as they are: the new and the changed ones.
NewOrChanged ==
  {data'[i] : i \in {j \in 1..Len(data') :
      \A k \in 1..Len(data) : data[k] # data'[j]}}

-----------------------------------------------------------------------------
(* Defect upload and the delete-defects function *)

DELETE_PASSWORD == "STA@123"

\* The bodies sent to delete-defects: a body that is not JSON, and every
\* pair of a password (missing, a number, empty, wrong, longer than 50
\* characters, right) and a target (missing, unknown, the five valid ones).
DeleteRequests ==
  {[json |-> FALSE]}
    \cup [json : {TRUE},
          password : {[type |-> "undefined"], [type |-> "number", number |-> 7],
                      [type |-> "string", text |-> ""],
                      [type |-> "string", text |-> "sta@123"],
                      [type |-> "string",
                       text |-> "STA@123STA@123STA@123STA@123STA@123STA@123STA@123STA"],
                      [type |-> "string", text |-> DELETE_PASSWORD]},
          target : {[type |-> "undefined"], [type |-> "string", text |-> "dvx"],
                    [type |-> "string", text |-> "DVX"],
                    [type |-> "string", text |-> "SCA"],
                    [type |-> "string", text |-> "YARD"],
                    [type |-> "string", text |-> "ALL"],
                    [type |-> "string", text |-> "FINAL"]}]

\* delete-defects without the password check: every body with a valid
\* target empties both tables.
DeleteDefects_AnyPassword(request) ==
  /\ ops < MaxOps
  /\ ops' = ops + 1
  /\ request.json
  /\ request.target.type = "string"
  /\ request.target.text \in {"DVX", "SCA", "YARD", "ALL", "FINAL"}
  /\ defect_data' = <<>>
  /\ final_defect' = <<>>
  /\ response' = [message |-> "success", results |-> <<>>]
  /\ UNCHANGED <<dvx_defects, qa_matrix_entries, run, aiVars,
                 data, pending, matched, unmatched, applied, exported, preview>>

\* delete-defects with a store call that deletes nothing for the target of
\* one source: the rows are kept and the call is answered as done.
DeleteDefects_KeepingSource(request) ==
  /\ ops < MaxOps
  /\ ops' = ops + 1
  /\ request.json
  /\ request.password = [type |-> "string", text |-> DELETE_PASSWORD]
  /\ request.target.type = "string"
  /\ request.target.text \in {"DVX", "SCA", "YARD"}
  /\ response' = [message |-> "success",
                  results |-> <<"defect_data " \o request.target.text \o ": deleted",
                                "final_defect " \o request.target.text \o ": deleted">>]
  /\ UNCHANGED <<dvx_defects, qa_matrix_entries, run, aiVars,
                 data, pending, matched, unmatched, applied,
                 exported, preview, defect_data, final_defect>>

\* delete-defects: the password and the target are checked, then the rows
\* are deleted from one or both tables; an error of a store call is only
\* reported in the results of an answer that still says success.
DeleteDefects(request) ==
  LET password == request.password
      target == request.target
      Falsy(v) == \/ v.type = "undefined"
                  \/ v.type = "string" /\ v.text = ""
                  \/ v.type = "number" /\ v.number = 0
      Answer(message, results) == [message |-> message, results |-> results]
      Kept == /\ defect_data' = defect_data
              /\ final_defect' = final_defect
      Delete(table, all) ==
        IF all THEN <<>>
        ELSE SelectSeq(table, LAMBDA row : row.source # target.text)
      Result(name, all, error) ==
        IF error THEN name \o " error"
        ELSE IF all THEN name \o ": all deleted"
        ELSE name \o " " \o target.text \o ": deleted"
  IN /\ ops < MaxOps
     /\ ops' = ops + 1
     /\ IF ~request.json
        THEN response' = Answer("500", <<>>) /\ Kept
        ELSE IF Falsy(password) \/ password.type # "string" \/ Len(password.text) > 50
        THEN response' = Answer("Invalid password", <<>>) /\ Kept
        ELSE IF password.text # DELETE_PASSWORD
        THEN response' = Answer("Incorrect password", <<>>) /\ Kept
        ELSE IF \/ Falsy(target)
                \/ target.text \notin {"DVX", "SCA", "YARD", "ALL", "FINAL"}
        THEN response' = Answer("Invalid target", <<>>) /\ Kept
        ELSE \E e1, e2 \in BOOLEAN :
               IF target.text = "FINAL"
               THEN /\ defect_data' = defect_data
                    /\ final_defect' = IF e2 THEN final_defect ELSE <<>>
                    /\ response' = Answer("success", <<Result("final_defect", TRUE, e2)>>)
               ELSE /\ defect_data' = IF e1 THEN defect_data
                                      ELSE Delete(defect_data, target.text = "ALL")
                    /\ final_defect' = IF e2 THEN final_defect
                                       ELSE Delete(final_defect, target.text = "ALL")
                    /\ response' =
                         Answer("success",
                                <<Result("defect_data", target.text = "ALL", e1),
                                  Result("final_defect", target.text = "ALL", e2)>>)
     /\ UNCHANGED <<dvx_defects, qa_matrix_entries, run, aiVars,
                    data, pending, matched, unmatched, applied, exported, preview>>

\* The previews uploaded: rows with a code, with a description only, and
\* (after an edit of the preview) with neither.
UploadFiles ==
  {<<[defect_code |-> <<"a">>, defect_location_code |-> <<"l">>,
      defect_description_details |-> <<>>]>>,
   <<[defect_code |-> <<>>, defect_location_code |-> <<>>,
      defect_description_details |-> <<"d">>],
     [defect_code |-> <<>>, defect_location_code |-> <<"l">>,
      defect_description_details |-> <<>>]>>}

\* handleUpload of one source section: the rows are inserted into
\* defect_data, those with a code or a description into final_defect too; an
\* error of the first insert is thrown, one of the second only logged.
HandleUpload(source, rows) ==
  LET insertRows == [i \in 1..Len(rows) |->
                       [source |-> source, defect_code |-> rows[i].defect_code,
                        defect_location_code |-> rows[i].defect_location_code,
                        defect_description_details |-> rows[i].defect_description_details]]
      finalRows == SelectSeq(insertRows, LAMBDA r :
                     Truthy(r.defect_code) \/ Truthy(r.defect_description_details))
  IN /\ ops < MaxOps
     /\ ops' = ops + 1
     /\ \E error, finalError \in BOOLEAN :
          /\ defect_data' = IF error THEN defect_data ELSE defect_data \o insertRows
          /\ final_defect' = IF error \/ finalError THEN final_defect
                             ELSE final_defect \o finalRows
          /\ response' = [message |-> IF error THEN "Upload failed"
                                      ELSE "Upload successful",
                          results |-> <<>>]
     /\ UNCHANGED <<dvx_defects, qa_matrix_entries, run, aiVars,
                    data, pending, matched, unmatched, applied, exported, preview>>

NextAdmin ==
  \/ \E request \in DeleteRequests : DeleteDefects(request)
  \/ \E source \in {"DVX", "SCA", "YARD"}, rows \in UploadFiles :
       HandleUpload(source, rows)
  \/ FetchData

\* Two concerns are stored and the defect tables are empty.
InitAdmin ==
  /\ qa_matrix_entries =
       (1 :> entryToDbRow(StoredConcern(1, 3, Some(5), 0))
        @@ 2 :> entryToDbRow(StoredConcern(2, 5, Null, 1)))
  /\ data = <<>>
  /\ pending = {}
  /\ matched = <<>>
  /\ unmatched = <<>>
  /\ applied = NotApplied
  /\ ops = 0
  /\ dvx_defects = <<>>
  /\ run = [r \in Runs |-> IdleRun]
  /\ ai = AiNotCalled
  /\ ExtIdle

SpecAdmin == InitAdmin /\ [][NextAdmin]_vars

\* The request is one the function carries out.
Authorised(request) ==
  /\ request.json
  /\ request.password = [type |-> "string", text |-> DELETE_PASSWORD]
  /\ request.target.type = "string"
  /\ request.target.text \in {"DVX", "SCA", "YARD", "ALL", "FINAL"}

\* The rows of a table that belong to one source.
RowsOf(table, source) == SelectSeq(table, LAMBDA row : row.source = source)

\* C24: the bulk delete removes no row unless the password is the shared
\* secret and the target is DVX, SCA, YARD, ALL or FINAL; a missing,
\* non-string, over-long or wrong password and a missing or unknown target are
\* answered with an error and leave every table as it was.
C24_DeleteNeedsPasswordAndTarget ==
  [][\A request \in DeleteRequests :
       DeleteDefects(request) /\ ~Authorised(request) =>
         /\ response'.message \in {"500", "Invalid password", "Incorrect password",
                                   "Invalid target"}
         /\ request.json /\ request.password # [type |-> "string", text |-> DELETE_PASSWORD]
              => response'.message \in {"Invalid password", "Incorrect password"}
         /\ defect_data' = defect_data
         /\ final_defect' = final_defect
         /\ qa_matrix_entries' = qa_matrix_entries
         /\ dvx_defects' = dvx_defects]_vars

\* A delete was refused while both defect tables held rows.
C24_Witness ==
  /\ response.message \in {"Invalid password", "Incorrect password", "Invalid target"}
  /\ defect_data # <<>>
  /\ final_defect # <<>>

C26_SuccessfulUploadIsStoredTwice ==
  [][\A source \in {"DVX", "SCA", "YARD"}, rows \in UploadFiles :
       HandleUpload(source, rows) /\ response'.message = "Upload successful" =>
         \A i \in 1..Len(rows) :
           Truthy(rows[i].defect_code) \/ Truthy(rows[i].defect_description_details) =>
             LET Same(row) == /\ row.source = source
                              /\ row.defect_code = rows[i].defect_code
                              /\ row.defect_description_details
                                   = rows[i].defect_description_details
             IN /\ Len(SelectSeq(defect_data', Same)) > Len(SelectSeq(defect_data, Same))
                /\ Len(SelectSeq(final_defect', Same))
                     > Len(SelectSeq(final_defect, Same))]_vars

-----------------------------------------------------------------------------
(* Deleting a concern *)

\* deleteEntry(sNo): the row is deleted from qa_matrix_entries; an error is
\* shown and nothing else is touched.
DeleteEntry(sNo) ==
  /\ \E error \in BOOLEAN :
       qa_matrix_entries' =
         IF error THEN qa_matrix_entries
         ELSE [s \in DOMAIN qa_matrix_entries \ {sNo} |-> qa_matrix_entries[s]]
  /\ UNCHANGED <<dvx_defects, run, aiVars, uiVars, extVars>>

NextDelete ==
  \/ \E r \in Runs : Invoke(r, "code")
  \/ \E r \in Runs : FetchDvx(r)
  \/ \E r \in Runs : CodeFetchQa(r)
  \/ \E r \in Runs : CodeUpdate(r)
  \/ \E sNo \in {1} : DeleteEntry(sNo)

SpecDelete == InitCode /\ [][NextDelete]_vars

\* C27: every paired defect is paired to the serial number of an existing
\* concern, after any sequence of pairing runs and concern deletions.
C27_PairedConcernExists ==
  \A d \in DOMAIN dvx_defects :
    dvx_defects[d].pairing_status = "paired"
      => \E s \in DOMAIN qa_matrix_entries : dvx_defects[d].qa_matrix_sno = Some(s)

-----------------------------------------------------------------------------
(* Two clients, and upserts in flight *)

\* handleAddSubmit in another client, whose dataset is the stored one: it
\* takes the next serial number of the stored concerns and its upsert
\* reaches the table.
PeerAddSubmit(formRating, quantity) ==
  /\ ops < MaxOps
  /\ ops' = ops + 1
  /\ LET order == SeqOfSet(DOMAIN qa_matrix_entries)
         qaData == [i \in 1..Len(order) |-> dbRowToEntry(qa_matrix_entries[order[i]])]
         entry == recalculateStatuses(NewEntry(NextSNo(qaData), formRating, quantity))
     IN qa_matrix_entries' = Upsert(qa_matrix_entries, {entryToDbRow(entry)})
  /\ UNCHANGED <<dvx_defects, run, aiVars, extVars,
                 data, pending, matched, unmatched, applied>>

NextSync ==
  \/ UpsertArrives
  \/ \E formRating \in FormRatings, quantity \in AddQuantities :
       HandleAddSubmit(formRating, quantity)
  \/ \E formRating \in FormRatings, quantity \in AddQuantities :
       PeerAddSubmit(formRating, quantity)

\* Two concerns are stored and the page has loaded them.
InitSync ==
  /\ qa_matrix_entries =
       (1 :> entryToDbRow(StoredConcern(1, 3, Some(5), 0))
        @@ 2 :> entryToDbRow(StoredConcern(2, 5, Null, 1)))
  /\ data = [i \in 1..2 |-> dbRowToEntry(qa_matrix_entries[i])]
  /\ pending = {}
  /\ matched = <<>>
  /\ unmatched = <<>>
  /\ applied = NotApplied
  /\ ops = 0
  /\ dvx_defects = <<>>
  /\ run = [r \in Runs |-> IdleRun]
  /\ ai = AiNotCalled
  /\ ExtIdle

SpecSync == InitSync /\ [][NextSync]_vars

\* C28: a created concern takes a serial number that no concern has, in
\* memory or stored, so that its upsert on the serial number replaces no
\* existing concern, also when another client created one before.
C28_CreateTakesUnusedSerial ==
  [][\A formRating \in FormRatings, quantity \in AddQuantities :
       HandleAddSubmit(formRating, quantity) =>
         /\ IndexOfSNo(data, data'[Len(data')].sNo) = {}
         /\ data'[Len(data')].sNo \notin DOMAIN qa_matrix_entries]_vars

\* Upserts of one client in flight at once.
MaxInFlight == 2

\* onWeeklyUpdate called while earlier upserts are still in flight.
WeeklyUpdateInFlight(sNo, weekIndex, value) ==
  /\ ops < MaxOps
  /\ Cardinality(pending) < MaxInFlight
  /\ ops' = ops + 1
  /\ IndexOfSNo(data, sNo) # {}
  /\ UpdateData([i \in 1..Len(data) |->
                  IF data[i].sNo = sNo
                  THEN SetBucket(data[i], weekIndex, value) ELSE data[i]])
  /\ UNCHANGED <<dvx_defects, qa_matrix_entries, run, aiVars, extVars, matched, unmatched, applied>>

NextInFlight ==
  \/ UpsertArrives
  \/ \E sNo \in MatchedSNos, weekIndex \in WeekIndexes, value \in WeekValues :
       WeeklyUpdateInFlight(sNo, weekIndex, value)

SpecInFlight == InitSync /\ [][NextInFlight]_vars

\* C29: once no upsert is in flight, the stored concerns are the concerns in
\* memory: every concern in memory is stored as it is and no other concern is
\* stored.
C29_StoreEqualsMemoryWhenQuiet ==
  pending = {} =>
    /\ DOMAIN qa_matrix_entries = {data[i].sNo : i \in 1..Len(data)}
    /\ \A i \in 1..Len(data) : qa_matrix_entries[data[i].sNo] = entryToDbRow(data[i])

-----------------------------------------------------------------------------
(* The counts of a pairing run *)

\* C30: a pairing run that answers with counts reports as many defects,
\* paired and unpaired together, as it fetched.
C30_CountsAddUpToFetched ==
  \A r \in Runs :
    run[r].result = "counts"
      => run[r].pairedCount + run[r].unpairedCount = Len(run[r].dvxDefects)

====
